---- MODULE Spec2Model ----
(***************************************************************************)
(* Detection-and-risk-classification engine of the crypto detector:        *)
(* the risk classifier (risk-utils.ts), the lexical detectors              *)
(* (regex-detector.ts), the syntax-tree detector (multilang-detector.ts),  *)
(* the detector orchestrator (detector-orchestrator.ts), the grammar       *)
(* initialisation (ts-wasm.ts) and the workspace scanner (index.ts).       *)
(*                                                                         *)
(* Strings are sequences of one-character strings, so that toLowerCase,    *)
(* includes and the regular expressions are computed, not assumed.         *)
(***************************************************************************)
EXTENDS Integers, Sequences, FiniteSets, TLC

VARIABLES
    \* ---- risk classifier (one call of assignRisk) ----
    rPc,        \* "idle" | "call" | "done"
    rQs,        \* argument quantumSafe
    rType,      \* argument type
    rName,      \* argument name
    rBase,      \* local baseScore after the name tiers (risk-utils.ts:26-49)
    rOut,       \* returned RiskProfile
    \* ---- workspace scanner (one call of scanWorkspace) ----
    wPc,        \* "idle" | "start" | "loop" | "detecting" | "done" | "rejected"
    files,      \* the list vscode.workspace.findFiles resolves to
    detector,   \* which regexDetector the module binds: "plugin" | "class"
    idx,        \* position of the for-of loop in files, 1-based
    processed,  \* local processed
    assetMap,   \* local assetMap, its entries in insertion order
    cancelled,  \* token.isCancellationRequested
    progress,   \* the arguments of the onProgress calls so far
    pending,    \* the settled value of the awaited detectInDocument promise
    calls,      \* the detectInDocument invocations so far, in order
    results,    \* the value scanWorkspace resolved to
    \* ---- detector orchestrator (one call of scanFile) ----
    oPc,        \* "idle" | "detectAll" | "call" | "await" | "done" | "rejected"
    oFileState, \* what reading the file gives: "ok" | "missing" | "unreadable"
    oContent,   \* the text of the file, handed to scanFile as content
    oFilename,  \* argument filename
    oGrammar,   \* what the syntax-tree detector will meet for this file
    oVersion,   \* which version of detectMultiLang the module binds
    oRegexHits, \* local regexHits
    oAstRejected, \* the promise of detectMultiLang(fileUri) was rejected
    oAstHits,   \* local astHits
    oResult,    \* the value scanFile resolved to
    \* ---- grammar loader (module state of ts-wasm.ts and its callers) ----
    initPromise,   \* module variable initPromise: NoPromise or a promise id
    tasks,         \* promise id -> progress of the async body behind it
    initStarts,    \* how many times Parser.init() was started
    loadStarts,    \* language -> how many times its grammar load was started
    baseDirExists, \* fs.existsSync(baseDir)
    wasmPresent,   \* the languages whose .wasm file exists
    gCaller,       \* caller -> "idle" | "waiting" | "got"
    gAwait,        \* caller -> the promise getParsers returned to it
    gJoin,         \* caller -> what it found on entry
    gGot,          \* caller -> the value its await produced
    \* ---- position indexer (one call of offsetToLineNumbers) ----
    iPc,        \* "idle" | "call" | "done"
    iText,      \* argument text
    iOffsets,   \* argument offsets
    iLines,     \* the returned list of line numbers
    \* ---- lexical detectors (one text scanned by both forms) ----
    lPc,        \* "idle" | "call" | "plugin" | "done"
    lText,      \* the text of the file
    lPlugin,    \* what the plugin form returned
    lClass,     \* what the class form returned
    \* ---- repository scan (one call of scanRepository) ----
    cPc,        \* "idle" | "call" | "installCheck" | "analyze" | "builtin" | "done" | "rejected"
    cUseCodeQL, \* argument useCodeQL
    cInstalled, \* new CodeQLAnalyzer() and isCodeQLInstalled(): "yes" | "no" | "throws"
    cAnalysis,  \* how analyzeRepository() settles: [threw, findings]
    cBuiltin,   \* the findings of the built-in scanner for the repository
    cOut,       \* the value scanRepository resolved to
    \* ---- match-collection loop (one regex over one text) ----
    xPc,        \* "idle" | "loop" | "done"
    xKind,      \* "detector" (regex-detector.ts:220) | "sweep" (multilang-detector.ts:121)
    xText,      \* the text scanned
    xPattern,   \* the regex, by its literal alternatives
    xLastIndex, \* regex.lastIndex, the scan cursor
    xOffsets,   \* local offsets
    xIters,     \* how many times the loop body has run
    \* ---- one RegexDetector object scanning several files in turn ----
    sPc,        \* "idle" | "ready"
    sSeen,      \* seenDetections as the last call of scan left it
    sLog,       \* the calls of scan so far: content, filename, result
    \* ---- the tree walk of detectMultiLang, one node per step ----
    kPc,        \* "idle" | "walk" | "done"
    kText,      \* the text parsed
    kShape,     \* the shape of its tree
    kAgenda,    \* the nodes whose walk(node) call is still to run, next first
    kVisited,   \* the nodes walk was called on, in order
    kTests,     \* what the rule tests of each visited node gave
    kAcc,       \* <<results, foundIds>>
    \* ---- the detectors on one text under one rule file ----
    uPc,        \* "idle" | "scan" | "tree" | "done"
    uRules,     \* the rules of the language, as read from the rule file
    uText,      \* the file content
    uScan,      \* what RegexDetector.scan did: threw, or the assets
    uDoc,       \* what RegexDetector.detectInDocument resolved to
    uAst        \* what detectMultiLang resolved to

riskVars == <<rPc, rQs, rType, rName, rBase, rOut>>

wsVars == <<wPc, files, detector, idx, processed, assetMap, cancelled,
            progress, pending, calls, results>>

orchVars == <<oPc, oFileState, oContent, oFilename, oGrammar, oVersion,
              oRegexHits, oAstRejected, oAstHits, oResult>>

parserVars == <<initPromise, tasks, initStarts, loadStarts, baseDirExists,
                wasmPresent, gCaller, gAwait, gJoin, gGot>>

indexVars == <<iPc, iText, iOffsets, iLines>>

lexVars == <<lPc, lText, lPlugin, lClass>>

repoVars == <<cPc, cUseCodeQL, cInstalled, cAnalysis, cBuiltin, cOut>>

execVars == <<xPc, xKind, xText, xPattern, xLastIndex, xOffsets, xIters>>

sessVars == <<sPc, sSeen, sLog>>

walkVars == <<kPc, kText, kShape, kAgenda, kVisited, kTests, kAcc>>

dataVars == <<uPc, uRules, uText, uScan, uDoc, uAst>>

vars == <<riskVars, wsVars, orchVars, parserVars, indexVars, lexVars, repoVars, execVars, sessVars, walkVars, dataVars>>

nonWsVars == <<riskVars, orchVars, parserVars, indexVars, lexVars, repoVars, execVars, sessVars, walkVars, dataVars>>
nonRiskVars == <<wsVars, orchVars, parserVars, indexVars, lexVars, repoVars, execVars, sessVars, walkVars, dataVars>>
nonOrchVars == <<riskVars, wsVars, parserVars, indexVars, lexVars, repoVars, execVars, sessVars, walkVars, dataVars>>
nonParserVars == <<riskVars, wsVars, orchVars, indexVars, lexVars, repoVars, execVars, sessVars, walkVars, dataVars>>
nonIndexVars == <<riskVars, wsVars, orchVars, parserVars, lexVars, repoVars, execVars, sessVars, walkVars, dataVars>>
nonLexVars == <<riskVars, wsVars, orchVars, parserVars, indexVars, repoVars, execVars, sessVars, walkVars, dataVars>>
nonRepoVars == <<riskVars, wsVars, orchVars, parserVars, indexVars, lexVars, execVars, sessVars, walkVars, dataVars>>
nonExecVars == <<riskVars, wsVars, orchVars, parserVars, indexVars, lexVars, repoVars, sessVars, walkVars, dataVars>>
nonSessVars == <<riskVars, wsVars, orchVars, parserVars, indexVars, lexVars, repoVars, execVars, walkVars, dataVars>>
nonWalkVars == <<riskVars, wsVars, orchVars, parserVars, indexVars, lexVars, repoVars, execVars, sessVars, dataVars>>
nonDataVars == <<riskVars, wsVars, orchVars, parserVars, indexVars, lexVars, repoVars, execVars, sessVars, walkVars>>

\* no value, where a record is expected
None == [none |-> TRUE]

\* undefined, where a string is expected
Undefined == <<"undefined">>

-----------------------------------------------------------------------------
(* Strings *)

Uppers == <<"A","B","C","D","E","F","G","H","I","J","K","L","M",
            "N","O","P","Q","R","S","T","U","V","W","X","Y","Z">>
Lowers == <<"a","b","c","d","e","f","g","h","i","j","k","l","m",
            "n","o","p","q","r","s","t","u","v","w","x","y","z">>

\* String.prototype.toLowerCase, one character
LowerChar(c) ==
    IF \E i \in 1..26 : Uppers[i] = c
    THEN Lowers[CHOOSE i \in 1..26 : Uppers[i] = c]
    ELSE c

\* String.prototype.toLowerCase
ToLowerCase(s) == [i \in 1..Len(s) |-> LowerChar(s[i])]

\* String.prototype.includes
Includes(s, sub) ==
    \E i \in 0..(Len(s) - Len(sub)) :
        \A j \in 1..Len(sub) : s[i + j] = sub[j]

-----------------------------------------------------------------------------
(* Risk classifier: assignRisk(quantumSafe, type, name) *)

s_md5       == <<"m","d","5">>
s_sha1      == <<"s","h","a","1">>
s_des       == <<"d","e","s">>
s_rc4       == <<"r","c","4">>
s_rsa       == <<"r","s","a">>
s_ecdsa     == <<"e","c","d","s","a">>
s_aes       == <<"a","e","s">>
s_sha256    == <<"s","h","a","2","5","6">>
s_sha512    == <<"s","h","a","5","1","2">>
s_kyber     == <<"k","y","b","e","r">>
s_dilithium == <<"d","i","l","i","t","h","i","u","m">>
s_falcon    == <<"f","a","l","c","o","n">>
s_sphincs   == <<"s","p","h","i","n","c","s">>
s_cipher     == <<"c","i","p","h","e","r">>
s_encryption == <<"e","n","c","r","y","p","t","i","o","n">>
s_signature  == <<"s","i","g","n","a","t","u","r","e">>
s_keygen     == <<"k","e","y","g","e","n">>
s_hash       == <<"h","a","s","h">>

\* the base score of each tier and the default (risk-utils.ts:26,33,36,39,47)
BaseDefault == 50
BaseBroken  == 95
BaseClassic == 80
BaseModern  == 50
BasePqc     == 20

\* risk-utils.ts:26-49: the name tiers, first match wins
RiskTierMut(name) ==
    LET lower == ToLowerCase(name) IN
    IF Includes(lower, s_rsa) \/ Includes(lower, s_ecdsa)
    THEN [base |-> BaseClassic, explanation |-> "classical"]
    ELSE IF Includes(lower, s_md5) \/ Includes(lower, s_sha1)
             \/ Includes(lower, s_des) \/ Includes(lower, s_rc4)
    THEN [base |-> BaseBroken, explanation |-> "broken"]
    ELSE IF Includes(lower, s_aes) \/ Includes(lower, s_sha256)
             \/ Includes(lower, s_sha512)
    THEN [base |-> BaseModern, explanation |-> "modern"]
    ELSE IF Includes(lower, s_kyber) \/ Includes(lower, s_dilithium)
             \/ Includes(lower, s_falcon) \/ Includes(lower, s_sphincs)
    THEN [base |-> BasePqc, explanation |-> "pqc"]
    ELSE [base |-> BaseDefault, explanation |-> "default"]

RiskTier(name) ==
    LET lower == ToLowerCase(name) IN
    IF Includes(lower, s_md5) \/ Includes(lower, s_sha1)
       \/ Includes(lower, s_des) \/ Includes(lower, s_rc4)
    THEN [base |-> BaseBroken, explanation |-> "broken"]
    ELSE IF Includes(lower, s_rsa) \/ Includes(lower, s_ecdsa)
    THEN [base |-> BaseClassic, explanation |-> "classical"]
    ELSE IF Includes(lower, s_aes) \/ Includes(lower, s_sha256)
             \/ Includes(lower, s_sha512)
    THEN [base |-> BaseModern, explanation |-> "modern"]
    ELSE IF Includes(lower, s_kyber) \/ Includes(lower, s_dilithium)
             \/ Includes(lower, s_falcon) \/ Includes(lower, s_sphincs)
    THEN [base |-> BasePqc, explanation |-> "pqc"]
    ELSE [base |-> BaseDefault, explanation |-> "default"]

\* risk-utils.ts:52-54: quantumSafe is false, "partial", true, "unknown"
\* or absent (undefined); the comparisons are strict (===)
QuantumAdjustOrderMut(qs) ==
    CASE qs = "false"   -> 20
      [] qs = "partial" -> 10
      [] qs = "true"    -> -10
      [] OTHER          -> 15

QuantumAdjustMut(qs) ==
    CASE qs = "false"   -> 20
      [] qs = "partial" -> 20
      [] qs = "true"    -> -10
      [] OTHER          -> 0

QuantumAdjust(qs) ==
    CASE qs = "false"   -> 20
      [] qs = "partial" -> 10
      [] qs = "true"    -> -10
      [] OTHER          -> 0

\* risk-utils.ts:57-60: three independent ifs on the lower-cased type
TypeAdjustMut(type) ==
    LET t == ToLowerCase(type) IN
      (IF Includes(t, s_cipher) \/ Includes(t, s_encryption) THEN 5 ELSE 0)
    + (IF Includes(t, s_signature) \/ Includes(t, s_keygen) THEN 10 ELSE 0)
    + (IF Includes(t, s_hash) THEN -20 ELSE 0)

TypeAdjust(type) ==
    LET t == ToLowerCase(type) IN
      (IF Includes(t, s_cipher) \/ Includes(t, s_encryption) THEN 5 ELSE 0)
    + (IF Includes(t, s_signature) \/ Includes(t, s_keygen) THEN 10 ELSE 0)
    + (IF Includes(t, s_hash) THEN -5 ELSE 0)

Min(a, b) == IF a < b THEN a ELSE b
Max(a, b) == IF a > b THEN a ELSE b

\* risk-utils.ts:63
ClampMut(x) == Max(0, x)

Clamp(x) == Min(100, Max(0, x))

\* risk-utils.ts:66-69
SeverityOfMut(score) ==
    IF score > 75 THEN "high"
    ELSE IF score >= 45 THEN "medium"
    ELSE "low"

SeverityOf(score) ==
    IF score >= 75 THEN "high"
    ELSE IF score >= 45 THEN "medium"
    ELSE "low"

\* risk-utils.ts:21-72. A type of undefined makes type.toLowerCase() throw
\* a TypeError (line 57).
assignRisk(qs, type, name) ==
    IF type = Undefined
    THEN [threw |-> TRUE, severity |-> "none", score |-> 0,
          explanation |-> "none"]
    ELSE LET tier  == RiskTier(name)
             score == Clamp(tier.base + QuantumAdjust(qs) + TypeAdjust(type))
         IN [threw |-> FALSE, severity |-> SeverityOf(score), score |-> score,
             explanation |-> tier.explanation]

-----------------------------------------------------------------------------
(* Inputs of the risk classifier *)

QuantumSafeValues == {"true", "false", "partial", "unknown"}

RiskTypes ==
    { <<>>, s_hash, s_cipher, s_encryption, s_signature, s_keygen,
      <<"C","i","p","h","e","r">>, <<"H","A","S","H">>,
      <<"a","s","y","m","m","e","t","r","i","c">>,
      <<"p","o","s","t","-","q","u","a","n","t","u","m">>,
      s_hash \o <<"-">> \o s_signature,
      s_cipher \o <<"/">> \o s_keygen \o <<"/">> \o s_hash }

RiskNames ==
    { <<"M","D","5">>, <<"S","H","A","1">>, <<"S","H","A","-","1">>,
      <<"3","D","E","S">>, <<"R","C","4">>, <<"R","S","A">>,
      <<"E","C","D","S","A">>, <<"A","E","S">>, <<"S","H","A","2","5","6">>,
      <<"S","H","A","-","2","5","6">>, <<"s","h","a","5","1","2">>,
      <<"K","y","b","e","r">>, <<"D","I","L","I","T","H","I","U","M">>,
      <<"F","a","l","c","o","n">>, <<"S","P","H","I","N","C","S","+">>,
      <<"R","S","A","-","M","D","5">>, <<"A","E","S","-","D","E","S">>,
      <<"E","C","D","S","A","-","S","H","A","2","5","6">>,
      <<"A","E","S","-","K","y","b","e","r">>,
      <<"K","y","b","e","r","-","R","S","A">>,
      <<"F","a","l","c","o","n","-","R","C","4">>,
      <<"C","h","a","C","h","a","2","0">>, <<>> }

RiskInit ==
    /\ rPc = "call"
    /\ rQs \in QuantumSafeValues
    /\ rType \in RiskTypes
    /\ rName \in RiskNames
    /\ rBase = 0
    /\ rOut = None

RiskIdle ==
    /\ rPc = "idle"
    /\ rQs = "unknown"
    /\ rType = <<>>
    /\ rName = <<>>
    /\ rBase = 0
    /\ rOut = None

\* one call of assignRisk with the drawn arguments
CallAssignRisk ==
    /\ rPc = "call"
    /\ rBase' = RiskTier(rName).base
    /\ rOut' = assignRisk(rQs, rType, rName)
    /\ rPc' = "done"
    /\ UNCHANGED <<rQs, rType, rName>>
    /\ UNCHANGED nonRiskVars


-----------------------------------------------------------------------------
(* Texts and regular expressions *)

DigitChars == <<"0","1","2","3","4","5","6","7","8","9">>

\* \w of a JavaScript regular expression
WordChars ==
    {Uppers[i] : i \in 1..26} \cup {Lowers[i] : i \in 1..26}
        \cup {DigitChars[i] : i \in 1..10} \cup {"_"}

\* \s, as far as the texts drawn here go
SpaceChars == {" ", "\n", "\t", "\r"}

\* String(n) for a natural number
RECURSIVE NatToStr(_)
NatToStr(n) ==
    IF n < 10 THEN <<DigitChars[n + 1]>>
    ELSE NatToStr(n \div 10) \o <<DigitChars[(n % 10) + 1]>>

\* the ascending list of the members of a finite set of numbers:
\* Array.from(new Set(xs)).sort((a, b) => a - b)
RECURSIVE SortedSeq(_)
SortedSeq(S) ==
    IF S = {} THEN <<>>
    ELSE LET m == CHOOSE x \in S : \A y \in S : x <= y
         IN <<m>> \o SortedSeq(S \ {m})

\* text.substring(from, to), 0-based, to exclusive
Substring(text, from, to) == SubSeq(text, from + 1, to)

\* \b at 0-based position p of text
WordBoundary(text, p) ==
    LET before == p > 0 /\ text[p] \in WordChars
        after  == p < Len(text) /\ text[p + 1] \in WordChars
    IN before # after

\* /\b<lit>\b/i matches at 0-based offset i
LiteralAt(text, i, lit) ==
    /\ i + Len(lit) <= Len(text)
    /\ \A j \in 1..Len(lit) : LowerChar(text[i + j]) = LowerChar(lit[j])
    /\ WordBoundary(text, i)
    /\ WordBoundary(text, i + Len(lit))

\* a pattern is the set of the literal alternatives of /\b(...)\b/i; the
\* length matched at offset i, or -1
MatchLenAt(text, i, pattern) ==
    IF \E lit \in pattern : LiteralAt(text, i, lit)
    THEN Len(CHOOSE lit \in pattern :
                /\ LiteralAt(text, i, lit)
                /\ \A l2 \in pattern :
                      LiteralAt(text, i, l2) => Len(l2) <= Len(lit))
    ELSE -1

\* while ((match = regex.exec(text)) !== null) { offsets.push(match.index);
\*   if (match[0].length === 0) regex.lastIndex++; }
RECURSIVE ExecAll(_, _, _)
ExecAll(text, pattern, lastIndex) ==
    LET hits == {i \in lastIndex..Len(text) : MatchLenAt(text, i, pattern) >= 0}
    IN IF hits = {} THEN <<>>
       ELSE LET i == CHOOSE x \in hits : \A y \in hits : x <= y
                n == MatchLenAt(text, i, pattern)
            IN <<i>> \o ExecAll(text, pattern, IF n = 0 THEN i + 1 ELSE i + n)

\* content.split("\n")
RECURSIVE SplitLines(_)
SplitLines(text) ==
    IF \E i \in 1..Len(text) : text[i] = "\n"
    THEN LET i == CHOOSE x \in 1..Len(text) :
                    text[x] = "\n" /\ \A y \in 1..(x - 1) : text[y] # "\n"
         IN <<SubSeq(text, 1, i - 1)>> \o SplitLines(SubSeq(text, i + 1, Len(text)))
    ELSE <<text>>

\* String.prototype.trim
RECURSIVE Trim(_)
Trim(s) ==
    IF s = <<>> THEN s
    ELSE IF s[1] \in SpaceChars THEN Trim(Tail(s))
    ELSE IF s[Len(s)] \in SpaceChars THEN Trim(SubSeq(s, 1, Len(s) - 1))
    ELSE s

\* s.replace(/\s+/g, r)
RECURSIVE ReplaceSpaceRuns(_, _)
ReplaceSpaceRuns(s, r) ==
    IF s = <<>> THEN s
    ELSE IF s[1] \in SpaceChars
    THEN IF Len(s) > 1 /\ s[2] \in SpaceChars
         THEN ReplaceSpaceRuns(Tail(s), r)
         ELSE <<r>> \o ReplaceSpaceRuns(Tail(s), r)
    ELSE <<s[1]>> \o ReplaceSpaceRuns(Tail(s), r)

\* s.replace(/\s+/g, '-')
DashSpaces(s) == ReplaceSpaceRuns(s, "-")

-----------------------------------------------------------------------------
(* Position indexer: offsetToLineNumbers (regex-detector.ts:159-179) *)

\* lines 161-165: 0 and every offset that follows a "\n"
LineStartsMut(text) ==
    SortedSeq({0} \cup {i - 1 : i \in {j \in 1..Len(text) : text[j] = "\n"}})

LineStarts(text) ==
    SortedSeq({0} \cup {i \in 1..Len(text) : text[i] = "\n"})

\* lines 168-173: the binary search, lo and hi 0-based
RECURSIVE SearchLo(_, _, _, _)
SearchLo(lineStarts, off, lo, hi) ==
    IF lo > hi THEN lo
    ELSE LET mid == (lo + hi) \div 2
         IN IF lineStarts[mid + 1] <= off
            THEN SearchLo(lineStarts, off, mid + 1, hi)
            ELSE SearchLo(lineStarts, off, lo, mid - 1)

\* lines 167-176, one offset
LineOfOffsetMut(text, off) ==
    LET lineStarts == LineStarts(text)
        lo == SearchLo(lineStarts, off, 0, Len(lineStarts) - 1)
    IN Max(1, lo - 1)

LineOfOffset(text, off) ==
    LET lineStarts == LineStarts(text)
        lo == SearchLo(lineStarts, off, 0, Len(lineStarts) - 1)
    IN Max(0, lo - 1) + 1

offsetToLineNumbers(text, offsets) ==
    SortedSeq({LineOfOffset(text, offsets[k]) : k \in 1..Len(offsets)})

\* the characters the texts handed to the position indexer are made of
IndexChars == {"a", "\n"}

\* the length of such a text, at most
MaxTextLen == 4

\* the number of offsets of one call, at most
MaxOffsets == 2

\* "SHA256\nAES\n"
s_sha256AesLines ==
    <<"S","H","A","2","5","6","\n","A","E","S","\n">>

IndexTexts ==
    UNION {[1..n -> IndexChars] : n \in 0..MaxTextLen} \cup {s_sha256AesLines}

\* the offset lists of a text: every offset within 0..text.length
OffsetLists(text) == UNION {[1..n -> 0..Len(text)] : n \in 0..MaxOffsets}

IndexInit ==
    /\ iPc = "call"
    /\ iText \in IndexTexts
    /\ iOffsets \in OffsetLists(iText)
    /\ iLines = <<>>

IndexIdle ==
    /\ iPc = "idle"
    /\ iText = <<>>
    /\ iOffsets = <<>>
    /\ iLines = <<>>

\* regex-detector.ts:159-179
CallOffsetToLineNumbers ==
    /\ iPc = "call"
    /\ iLines' = offsetToLineNumbers(iText, iOffsets)
    /\ iPc' = "done"
    /\ UNCHANGED <<iText, iOffsets>>
    /\ UNCHANGED nonIndexVars

IndexNext == CallOffsetToLineNumbers

\* regex-detector.ts:181 (radius = 80)
SnippetRadius == 80

\* regex-detector.ts:181-185; the texts drawn here hold no "\r"
snippetAt(text, index) ==
    LET start == Max(0, index - SnippetRadius)
        end   == Min(Len(text), index + SnippetRadius)
        cut   == Substring(text, start, end)
    IN [i \in 1..Len(cut) |-> IF cut[i] = "\n" THEN " " ELSE cut[i]]

-----------------------------------------------------------------------------
(* Lexical detector, plugin form: regexDetector (regex-detector.ts:190-256) *)

n_MD5  == <<"M","D","5">>
n_SHA1 == <<"S","H","A","1">>
n_AES  == <<"A","E","S">>
s_algorithm == <<"a","l","g","o","r","i","t","h","m">>
s_regexColon == <<"r","e","g","e","x",":">>

\* regex-detector.ts:69, /\baes[-_]?(128|192|256)?\b/i by its alternatives
AesRegex ==
    {s_aes \o sep \o size :
        sep \in {<<>>, <<"-">>, <<"_">>},
        size \in {<<>>, <<"1","2","8">>, <<"1","9","2">>, <<"2","5","6">>}}

\* regex-detector.ts:11-150, the entries MD5 (/\bmd5\b/i) and SHA1
\* (/\bsha[-_]?1\b/i) and AES, each regex given by its literal alternatives
algorithmDB ==
    << [name |-> n_MD5, regex |-> {s_md5}, type |-> s_hash,
        quantumSafe |-> "false"],
       [name |-> n_SHA1,
        regex |-> {s_sha1, <<"s","h","a","-","1">>, <<"s","h","a","_","1">>},
        type |-> s_hash, quantumSafe |-> "false"],
       [name |-> n_AES, regex |-> AesRegex,
        type |-> s_cipher, quantumSafe |-> "partial"] >>

\* regex-detector.ts:155-157
makeId(name) == s_regexColon \o DashSpaces(ToLowerCase(name))

\* regex-detector.ts:244: occurrences of the asset built from the offsets
PluginOccurrencesMut(offsets, lines) == Len(lines)

PluginOccurrences(offsets, lines) == Len(offsets)

\* regex-detector.ts:217-250: the asset of one algorithmDB entry, or none
PluginAsset(text, path, info) ==
    LET offsets == ExecAll(text, info.regex, 0) IN
    IF Len(offsets) > 0
    THEN LET lines == offsetToLineNumbers(text, offsets)
             risk  == assignRisk(info.quantumSafe, info.type, info.name)
         IN << [id |-> makeId(info.name),
                assetType |-> s_algorithm,
                primitive |-> info.type,
                name |-> info.name,
                quantumSafe |-> info.quantumSafe,
                detectionContexts |->
                    << [filePath |-> path, lineNumbers |-> lines,
                        snippet |-> snippetAt(text, offsets[1])] >>,
                occurrences |-> PluginOccurrences(offsets, lines),
                severity |-> risk.severity,
                riskScore |-> risk.score] >>
    ELSE <<>>

\* regex-detector.ts:209-254: Object.values(found), in algorithmDB order
\* (the ids of two entries differ)
RECURSIVE PluginScanFrom(_, _, _)
PluginScanFrom(text, path, k) ==
    IF k > Len(algorithmDB) THEN <<>>
    ELSE PluginAsset(text, path, algorithmDB[k]) \o PluginScanFrom(text, path, k + 1)

PluginScan(text, path) == PluginScanFrom(text, path, 1)

-----------------------------------------------------------------------------
(* Lexical detector, class form: RegexDetector (regex-detector.ts:276-394) *)

n_createHash == <<"c","r","e","a","t","e","H","a","s","h">>

\* the content of rules/crypto-rules.json, read at regex-detector.ts:282:
\* rules per language key, of the shape DetectionRule (lines 264-274)
CRYPTO_RULES ==
    [ python |->
        << [name |-> n_SHA1, api |-> n_createHash, patterns |-> <<>>,
            type |-> Undefined, primitive |-> s_hash, quantumSafe |-> "false"],
           [name |-> n_MD5, api |-> Undefined, patterns |-> <<s_md5>>,
            type |-> s_hash, primitive |-> Undefined, quantumSafe |-> "false"],
           [name |-> n_AES, api |-> Undefined, patterns |-> <<>>,
            type |-> s_cipher, primitive |-> Undefined,
            quantumSafe |-> "partial"] >> ]

\* a ?? b
Coalesce(a, b) == IF a # Undefined THEN a ELSE b

s_unknown == <<"u","n","k","n","o","w","n">>

InSeq(x, sq) == \E i \in 1..Len(sq) : sq[i] = x

\* regex-detector.ts:290-303: the patterns of a flattened rule
RulePatterns(rule) ==
    LET p0 == rule.patterns
        p1 == IF rule.api # Undefined /\ ~InSeq(rule.api, p0)
              THEN Append(p0, rule.api) ELSE p0
        p2 == IF ~InSeq(rule.name, p1) THEN Append(p1, rule.name) ELSE p1
    IN p2

\* regex-detector.ts:285-306: this.rules, for the rules of a rule file
ClassRulesOf(langRules) ==
    [k \in 1..Len(langRules) |->
        [langRules[k] EXCEPT !.patterns = RulePatterns(langRules[k])]]

ClassRules == ClassRulesOf(CRYPTO_RULES.python)

\* regex-detector.ts:350-372: the asset pushed for one (rule, line)
ClassAsset(rule, filename, lineNumber, line, risk) ==
    [id |-> s_regexColon \o ToLowerCase(rule.name) \o <<"-">>
               \o NatToStr(lineNumber),
     assetType |-> s_algorithm,
     primitive |-> Coalesce(rule.primitive, Coalesce(rule.type, s_unknown)),
     name |-> rule.name,
     quantumSafe |-> rule.quantumSafe,
     detectionContexts |->
         << [filePath |-> filename, lineNumbers |-> <<lineNumber>>,
             snippet |-> Trim(line)] >>,
     occurrences |-> 1,
     severity |-> risk.severity,
     riskScore |-> risk.score]

\* regex-detector.ts:338-372: a line that matches and whose key was not
\* seen: the key is added, the risk computed and the asset pushed; an
\* exception of assignRisk leaves scan (no try around line 344)
ClassLineHit(rule, filename, index, line, risk, acc) ==
    IF risk.threw THEN <<acc[1], acc[2] \cup {<<rule.name, index>>}, TRUE>>
    ELSE << Append(acc[1], ClassAsset(rule, filename, index, line, risk)),
            acc[2] \cup {<<rule.name, index>>}, FALSE >>

\* regex-detector.ts:331-374: lines.forEach for one pattern; acc is
\* <<results, seenDetections, threw>>, seenDetections holding
\* <<rule name, line>> (the filename is the same throughout one scan)
RECURSIVE ClassLines(_, _, _, _, _, _, _)
ClassLines(lines, index, rule, risk, pattern, filename, acc) ==
    IF index > Len(lines) \/ acc[3] THEN acc
    ELSE ClassLines(lines, index + 1, rule, risk, pattern, filename,
            IF ExecAll(lines[index], {pattern}, 0) # <<>>
                  /\ <<rule.name, index>> \notin acc[2]
            THEN ClassLineHit(rule, filename, index, lines[index], risk, acc)
            ELSE acc)

\* regex-detector.ts:321-375: the patterns of one rule
RECURSIVE ClassPatterns(_, _, _, _, _, _)
ClassPatterns(lines, rule, risk, p, filename, acc) ==
    IF p > Len(rule.patterns) \/ acc[3] THEN acc
    ELSE ClassPatterns(lines, rule, risk, p + 1, filename,
            ClassLines(lines, 1, rule, risk, rule.patterns[p], filename, acc))

\* regex-detector.ts:318-376: the rules in turn
RECURSIVE ClassRulesFrom(_, _, _, _, _)
ClassRulesFrom(rules, lines, k, filename, acc) ==
    IF k > Len(rules) \/ acc[3] THEN acc
    ELSE ClassRulesFrom(rules, lines, k + 1, filename,
            ClassPatterns(lines, rules[k],
                          assignRisk(rules[k].quantumSafe,
                                     Coalesce(rules[k].type, rules[k].primitive),
                                     rules[k].name),
                          1, filename, acc))

\* regex-detector.ts:313-379: RegexDetector.scan on an object holding the
\* given rules: the assets returned, or the exception thrown
ClassScanOf(rules, content, filename) ==
    LET out == ClassRulesFrom(rules, SplitLines(content), 1, filename,
                              << <<>>, {}, FALSE >>)
    IN [threw |-> out[3], assets |-> IF out[3] THEN <<>> ELSE out[1]]

\* RegexDetector.scan on the object of regex-detector.ts:396
ClassScan(content, filename) == ClassScanOf(ClassRules, content, filename).assets

\* the offset in the content at which element k of content.split("\n")
\* starts
RECURSIVE ElementStart(_, _)
ElementStart(lines, k) ==
    IF k = 1 THEN 0 ELSE ElementStart(lines, k - 1) + Len(lines[k - 1]) + 1

\* regex-detector.ts:315 and 331-333: the lineNumber (index + 1) scan gives
\* a match at an offset of the content, which is the number of the element
\* of content.split("\n") that holds the offset (its "\n" included)
ScanLineOf(content, off) ==
    LET lines == SplitLines(content)
    IN CHOOSE k \in 1..Len(lines) :
          /\ ElementStart(lines, k) <= off
          /\ off <= ElementStart(lines, k) + Len(lines[k])

-----------------------------------------------------------------------------
(* File contents *)

\* the words and separators file contents are built from
Tokens == { s_sha1, n_MD5, n_createHash, <<" ">>, <<"\n">> }

\* the number of tokens of a file content, at most
MaxTokens == 3

RECURSIVE Flatten(_)
Flatten(toks) == IF toks = <<>> THEN <<>> ELSE Head(toks) \o Flatten(Tail(toks))

\* crypto.createHash('sha1')
s_createHashCall ==
    <<"c","r","y","p","t","o",".">> \o n_createHash \o <<"(","'">> \o s_sha1
        \o <<"'",")">>

\* the number of characters that follow the match on the long line
LongLineFill == 300

\* one line of source: sha1, a space and LongLineFill more characters
s_longLine == s_sha1 \o <<" ">> \o [i \in 1..LongLineFill |-> "x"]

\* the texts made of at most MaxTokens tokens
TokenTexts ==
    { Flatten(ts) : ts \in UNION {[1..n -> Tokens] : n \in 0..MaxTokens} }

Texts == TokenTexts \cup {s_createHashCall, s_longLine}

\* the contents the files of a scanned workspace are drawn from: empty, one
\* match, two matches on one line, on two lines, two rules, an API call
\* with its algorithm, two names glued into one word, mixed case, one AES
\* on line 1, one AES on line 2
FileContents ==
    { <<>>,
      s_sha1,
      Flatten(<<s_sha1, <<" ">>, s_sha1>>),
      Flatten(<<s_sha1, <<"\n">>, s_sha1>>),
      Flatten(<<n_MD5, <<"\n">>, s_sha1>>),
      Flatten(<<n_createHash, <<" ">>, s_sha1>>),
      Flatten(<<s_sha1, n_MD5>>),
      Flatten(<<n_MD5, <<" ">>, s_md5, <<"\n">>, <<"\n">>, n_MD5>>),
      n_AES,
      Flatten(<<<<"\n">>, n_AES>>) }

\* what reading a file can give when its detector runs
FileStates == {"ok", "missing", "unreadable"}

-----------------------------------------------------------------------------
(* The two lexical detectors on one text *)

\* the path of the scanned file
LexPath == <<"a",".","p","y">>

LexInit ==
    /\ lPc = "call"
    /\ lText \in Texts
    /\ lPlugin = <<>>
    /\ lClass = <<>>

LexIdle ==
    /\ lPc = "idle"
    /\ lText = <<>>
    /\ lPlugin = <<>>
    /\ lClass = <<>>

\* regex-detector.ts:208-254: the plugin form on the text
LexPluginScan ==
    /\ lPc = "call"
    /\ lPlugin' = PluginScan(lText, LexPath)
    /\ lPc' = "plugin"
    /\ UNCHANGED <<lText, lClass>>
    /\ UNCHANGED nonLexVars

\* regex-detector.ts:313-379: the class form on the text
LexClassScan ==
    /\ lPc = "plugin"
    /\ lClass' = ClassScan(lText, LexPath)
    /\ lPc' = "done"
    /\ UNCHANGED <<lText, lPlugin>>
    /\ UNCHANGED nonLexVars

LexNext == LexPluginScan \/ LexClassScan

-----------------------------------------------------------------------------
(* Syntax-tree detector: detectMultiLang (multilang-detector.ts:29-233) *)

s_astColon  == <<"a","s","t",":">>
s_textColon == <<"t","e","x","t",":">>

\* a value is truthy: neither undefined nor the empty string
Truthy(str) == str # Undefined /\ str # <<>>

\* rule.name || rule.api
NameOrApi(rule) == IF Truthy(rule.name) THEN rule.name ELSE rule.api

\* the maximal runs of word characters of the text, as <<start, end>>
WordSpans(text) ==
    { sp \in (0..Len(text)) \X (0..Len(text)) :
        /\ sp[1] < sp[2]
        /\ \A i \in (sp[1] + 1)..sp[2] : text[i] \in WordChars
        /\ (sp[1] = 0 \/ text[sp[1]] \notin WordChars)
        /\ (sp[2] = Len(text) \/ text[sp[2] + 1] \notin WordChars) }

\* the lines of the text, without their "\n", as <<start, end>>
LineSpans(text) ==
    LET ls == LineStarts(text)
    IN { <<ls[k], IF k < Len(ls) THEN ls[k + 1] - 1 ELSE Len(text)>> :
            k \in 1..Len(ls) }

\* the nodes of a tree in depth-first pre-order: by start, longer span first
RECURSIVE PreOrder(_)
PreOrder(S) ==
    IF S = {} THEN <<>>
    ELSE LET n == CHOOSE x \in S :
                    \A y \in S : x[1] < y[1] \/ (x[1] = y[1] /\ x[2] >= y[2])
         IN <<n>> \o PreOrder(S \ {n})

\* how deeply a grammar exposes the text as nodes
TreeShapes == {"root", "words", "lines"}

\* multilang-detector.ts:57, parser.parse(text): the root node spans the
\* text; a grammar may expose every word as a leaf, and every line as an
\* inner node above its words
ParseTree(text, shape) ==
    PreOrder({<<0, Len(text)>>}
                \cup (IF shape = "root" THEN {} ELSE WordSpans(text))
                \cup (IF shape = "lines" THEN LineSpans(text) ELSE {}))

\* text.substring(0, index).split("\n").length || 1
LineAtIndex(text, index) == Len(SplitLines(Substring(text, 0, index)))

\* new RegExp(`\\b${escapeRegExp(term)}\\b`, "i").test(snippet), for a term
\* without regular-expression metacharacters
TermFound(snippet, term) == ExecAll(snippet, {term}, 0) # <<>>

\* multilang-detector.ts:203 (substring(0, 300))
AstSnippetMax == 300

\* multilang-detector.ts:178-233; acc is <<results, foundIds>>
addDetection(rule, node, snippet, text, path, acc) ==
    LET line == LineAtIndex(text, node[1])
        id   == s_astColon \o ToLowerCase(NameOrApi(rule)) \o <<"-">>
                   \o NatToStr(line)
        risk == assignRisk(rule.quantumSafe,
                           Coalesce(rule.type, rule.primitive), NameOrApi(rule))
        cleanSnippet ==
            Trim(ReplaceSpaceRuns(Substring(snippet, 0, Min(AstSnippetMax, Len(snippet))),
                                  " "))
    IN IF id \in acc[2] THEN acc
       ELSE IF risk.threw THEN <<acc[1], acc[2] \cup {id}>>
       ELSE << Append(acc[1],
                 [id |-> id,
                  assetType |-> s_algorithm,
                  primitive |-> Coalesce(rule.primitive, rule.type),
                  name |-> NameOrApi(rule),
                  quantumSafe |-> rule.quantumSafe,
                  detectionContexts |->
                      << [filePath |-> path, lineNumbers |-> <<line>>,
                          snippet |-> cleanSnippet] >>,
                  occurrences |-> 1,
                  severity |-> risk.severity,
                  riskScore |-> risk.score]),
               acc[2] \cup {id} >>

\* multilang-detector.ts:74-93: the rules tested on one node
RECURSIVE WalkRules(_, _, _, _, _, _)
WalkRules(langRules, k, node, text, path, acc) ==
    IF k > Len(langRules) THEN acc
    ELSE LET rule    == langRules[k]
             snippet == Substring(text, node[1], node[2])
             next    ==
                IF ~Truthy(rule.name) /\ ~Truthy(rule.api) THEN acc
                ELSE IF Truthy(rule.api) /\ TermFound(snippet, rule.api)
                THEN addDetection(rule, node, snippet, text, path, acc)
                ELSE IF Truthy(rule.name) /\ TermFound(snippet, rule.name)
                THEN addDetection(rule, node, snippet, text, path, acc)
                ELSE acc
         IN WalkRules(langRules, k + 1, node, text, path, next)

\* multilang-detector.ts:68-109: walk, over the nodes in pre-order
RECURSIVE Walk(_, _, _, _, _, _)
Walk(nodes, n, langRules, text, path, acc) ==
    IF n > Len(nodes) THEN acc
    ELSE Walk(nodes, n + 1, langRules, text, path,
              WalkRules(langRules, 1, nodes[n], text, path, acc))

\* multilang-detector.ts:135-137 (index + 200)
SweepSnippetLen == 200

\* multilang-detector.ts:121-163: the matches of one rule in the raw text;
\* acc is <<results, foundIds, threw>>
RECURSIVE SweepOffsets(_, _, _, _, _, _)
SweepOffsets(offsets, m, rule, text, path, acc) ==
    IF m > Len(offsets) \/ acc[3] THEN acc
    ELSE LET index == offsets[m]
             line  == LineAtIndex(text, index)
             id    == s_textColon \o ToLowerCase(NameOrApi(rule)) \o <<"-">>
                         \o NatToStr(line)
             risk  == assignRisk(rule.quantumSafe,
                                 Coalesce(rule.type, rule.primitive),
                                 NameOrApi(rule))
             snippet == Substring(text, Max(0, index),
                                  Min(Len(text), index + SweepSnippetLen))
             next ==
                IF id \in acc[2] THEN acc
                ELSE IF risk.threw THEN <<acc[1], acc[2] \cup {id}, TRUE>>
                ELSE << Append(acc[1],
                          [id |-> id,
                           assetType |-> s_algorithm,
                           primitive |-> Coalesce(rule.primitive, rule.type),
                           name |-> NameOrApi(rule),
                           quantumSafe |-> rule.quantumSafe,
                           detectionContexts |->
                               << [filePath |-> path, lineNumbers |-> <<line>>,
                                   snippet |-> snippet] >>,
                           occurrences |-> 1,
                           severity |-> risk.severity,
                           riskScore |-> risk.score]),
                        acc[2] \cup {id}, FALSE >>
         IN SweepOffsets(offsets, m + 1, rule, text, path, next)

\* multilang-detector.ts:114-164: the raw-text sweep over the rules
RECURSIVE Sweep(_, _, _, _, _)
Sweep(langRules, k, text, path, acc) ==
    IF k > Len(langRules) \/ acc[3] THEN acc
    ELSE LET rule == langRules[k]
             searchTerm == IF Truthy(rule.api) THEN rule.api ELSE rule.name
         IN Sweep(langRules, k + 1, text, path,
                  IF ~Truthy(rule.name) /\ ~Truthy(rule.api) THEN acc
                  ELSE SweepOffsets(ExecAll(text, {searchTerm}, 0), 1, rule,
                                    text, path, acc))

\* what getParserForExtension, CRYPTO_RULES[langKey], openTextDocument and
\* parser.parse give for one file: no parser, no rule, the document cannot
\* be opened, the parse throws, or a tree of one of the shapes
Grammars ==
    { [parser |-> FALSE, rules |-> TRUE, openThrows |-> FALSE,
       parseThrows |-> FALSE, shape |-> "root"],
      [parser |-> TRUE, rules |-> FALSE, openThrows |-> FALSE,
       parseThrows |-> FALSE, shape |-> "root"],
      [parser |-> TRUE, rules |-> TRUE, openThrows |-> TRUE,
       parseThrows |-> FALSE, shape |-> "root"],
      [parser |-> TRUE, rules |-> TRUE, openThrows |-> FALSE,
       parseThrows |-> TRUE, shape |-> "root"] }
        \cup { [parser |-> TRUE, rules |-> TRUE, openThrows |-> FALSE,
                parseThrows |-> FALSE, shape |-> sh] : sh \in TreeShapes }

\* multilang-detector.ts:64-166: the tree walk, then the raw-text sweep; an
\* exception in the sweep reaches the catch of line 169, which returns []
WalkAndSweep(langRules, text, path, shape) ==
    LET walked == Walk(ParseTree(text, shape), 1, langRules, text, path,
                       << <<>>, {} >>)
        swept  == Sweep(langRules, 1, text, path,
                        <<walked[1], walked[2], FALSE>>)
    IN IF swept[3] THEN <<>> ELSE swept[1]

\* multilang-detector.ts:29-173: resolves to the findings, or to [] when
\* there is no parser (37-40), no rule (45-48), a parse error (59-62) or
\* an exception caught at line 169 (openTextDocument failing, line 52)
detectMultiLang(text, path, g) ==
    IF ~g.parser \/ ~g.rules \/ g.openThrows \/ g.parseThrows THEN <<>>
    ELSE WalkAndSweep(CRYPTO_RULES.python, text, path, g.shape)

-----------------------------------------------------------------------------
(* The tree walk, one call of walk(node) per step
   (multilang-detector.ts:68-109) *)

WalkPath == <<"a",".","p","y">>

\* the texts walked
WalkTexts == TokenTexts \cup {s_createHashCall}

\* the nodes of the tree of a text
TreeNodes(text, shape) ==
    {<<0, Len(text)>>}
        \cup (IF shape = "root" THEN {} ELSE WordSpans(text))
        \cup (IF shape = "lines" THEN LineSpans(text) ELSE {})

\* span a lies within span b and is not b
Within(a, b) == b[1] <= a[1] /\ a[2] <= b[2] /\ a # b

\* node.child(0..childCount-1): the nodes directly below a node, in order
Children(node, nodes) ==
    PreOrder({c \in nodes :
                /\ Within(c, node)
                /\ ~\E d \in nodes : Within(c, d) /\ Within(d, node)})

\* multilang-detector.ts:77-92: which test of a rule lets walk call
\* addDetection on a node: the API signature is tested first, and its
\* match skips the test of the name (continue, line 82)
DetectionType(rule, snippet) ==
    IF ~Truthy(rule.name) /\ ~Truthy(rule.api) THEN "none"
    ELSE IF Truthy(rule.api) /\ TermFound(snippet, rule.api) THEN "api"
    ELSE IF Truthy(rule.name) /\ TermFound(snippet, rule.name) THEN "name"
    ELSE "none"

\* multilang-detector.ts:96-103: the children walk goes on to after the
\* rules were tested on a node, whether or not a rule matched
ChildrenToWalkMut(node, nodes, matched) ==
    IF matched THEN <<>> ELSE Children(node, nodes)

ChildrenToWalk(node, nodes, matched) == Children(node, nodes)

TreeWalkInit ==
    /\ kPc = "walk"
    /\ kText \in WalkTexts
    /\ kShape \in TreeShapes
    /\ kAgenda = << <<0, Len(kText)>> >>
    /\ kVisited = <<>>
    /\ kTests = <<>>
    /\ kAcc = << <<>>, {} >>

TreeWalkIdle ==
    /\ kPc = "idle"
    /\ kText = <<>>
    /\ kShape = "root"
    /\ kAgenda = <<>>
    /\ kVisited = <<>>
    /\ kTests = <<>>
    /\ kAcc = << <<>>, {} >>

\* multilang-detector.ts:68-108: one call of walk(node): the rules are
\* tested on the node's source text, then walk is called on each child
WalkNode ==
    /\ kPc = "walk"
    /\ kAgenda # <<>>
    /\ LET node    == Head(kAgenda)
           snippet == Substring(kText, node[1], node[2])
           rules   == CRYPTO_RULES.python
           tests   == [k \in 1..Len(rules) |-> DetectionType(rules[k], snippet)]
           matched == \E k \in 1..Len(rules) : tests[k] # "none"
           acc     == WalkRules(rules, 1, node, kText, WalkPath, kAcc)
       IN /\ kVisited' = Append(kVisited, node)
          /\ kTests' = Append(kTests,
                              [node |-> node, types |-> tests,
                               added |-> Len(acc[1]) - Len(kAcc[1])])
          /\ kAcc' = acc
          /\ kAgenda' = ChildrenToWalk(node, TreeNodes(kText, kShape), matched)
                            \o Tail(kAgenda)
    /\ UNCHANGED <<kPc, kText, kShape>>
    /\ UNCHANGED nonWalkVars

\* multilang-detector.ts:111: walk(tree.rootNode) has returned
WalkReturns ==
    /\ kPc = "walk"
    /\ kAgenda = <<>>
    /\ kPc' = "done"
    /\ UNCHANGED <<kText, kShape, kAgenda, kVisited, kTests, kAcc>>
    /\ UNCHANGED nonWalkVars

TreeWalkNext == WalkNode \/ WalkReturns

-----------------------------------------------------------------------------
(* Syntax-tree detector, the version with one set of detection keys for
   the tree walk and the raw-text sweep (multilang-detector.ts:491-650) *)

\* multilang-detector.ts:542 and 606, `${rule.name}-${uri.fsPath}-${line}`
detectionKey(rule, path, line) ==
    rule.name \o <<"-">> \o path \o <<"-">> \o NatToStr(line)

\* multilang-detector.ts:548-570 and 615-637: the finding pushed
KeyedAsset(rule, prefix, path, line, snippet, risk) ==
    [id |-> prefix \o ToLowerCase(rule.name) \o <<"-">> \o NatToStr(line),
     assetType |-> s_algorithm,
     primitive |-> Coalesce(Coalesce(rule.primitive, rule.type), s_unknown),
     name |-> rule.name,
     quantumSafe |-> rule.quantumSafe,
     detectionContexts |->
         << [filePath |-> path, lineNumbers |-> <<line>>,
             snippet |-> snippet] >>,
     occurrences |-> 1,
     severity |-> risk.severity,
     riskScore |-> risk.score]

\* multilang-detector.ts:538-574: one rule found in one node; a key seen
\* already is skipped (543), a finding whose risk cannot be computed is
\* dropped by the catch of line 571 after its key was added (545)
KeyedNodeHit(rule, path, line, snippet, risk, acc) ==
    LET key == detectionKey(rule, path, line)
    IN  IF key \in acc[2] THEN acc
        ELSE IF risk.threw THEN <<acc[1], acc[2] \cup {key}>>
        ELSE << Append(acc[1],
                       KeyedAsset(rule, s_astColon, path, line,
                           Substring(snippet, 0, Min(AstSnippetMax, Len(snippet))),
                           risk)),
                acc[2] \cup {key} >>

\* multilang-detector.ts:529-575: the rules tested on one node; acc is
\* <<results, seenDetections>>
RECURSIVE KeyedWalkRules(_, _, _, _, _, _, _)
KeyedWalkRules(langRules, k, node, snippet, path, line, acc) ==
    IF k > Len(langRules) THEN acc
    ELSE KeyedWalkRules(langRules, k + 1, node, snippet, path, line,
            IF ~Truthy(langRules[k].name) THEN acc
            ELSE IF ~TermFound(snippet, langRules[k].name) THEN acc
            ELSE KeyedNodeHit(langRules[k], path, line, snippet,
                              assignRisk(langRules[k].quantumSafe,
                                         Coalesce(langRules[k].type,
                                                  langRules[k].primitive),
                                         langRules[k].name),
                              acc))

\* multilang-detector.ts:522-588: walk, over the nodes in pre-order; a node
\* with an empty snippet is left at once (line 527)
RECURSIVE KeyedWalk(_, _, _, _, _, _)
KeyedWalk(nodes, n, langRules, text, path, acc) ==
    IF n > Len(nodes) THEN acc
    ELSE KeyedWalk(nodes, n + 1, langRules, text, path,
                   IF nodes[n][1] = nodes[n][2] THEN acc
                   ELSE KeyedWalkRules(langRules, 1, nodes[n],
                                       Substring(text, nodes[n][1], nodes[n][2]),
                                       path, LineAtIndex(text, nodes[n][1]),
                                       acc))

\* multilang-detector.ts:611 (index - 50)
KeyedSnippetBefore == 50

\* multilang-detector.ts:604-637: one match of one rule; acc is
\* <<results, seenDetections, threw>>
KeyedMatchHit(rule, path, line, snippet, risk, acc) ==
    LET key == detectionKey(rule, path, line)
    IN  IF key \in acc[2] THEN acc
        ELSE IF risk.threw THEN <<acc[1], acc[2] \cup {key}, TRUE>>
        ELSE << Append(acc[1],
                       KeyedAsset(rule, s_textColon, path, line, snippet, risk)),
                acc[2] \cup {key}, FALSE >>

\* multilang-detector.ts:601-638: the matches of one rule in the raw text
RECURSIVE KeyedSweepOffsets(_, _, _, _, _, _, _)
KeyedSweepOffsets(offsets, m, rule, risk, text, path, acc) ==
    IF m > Len(offsets) \/ acc[3] THEN acc
    ELSE KeyedSweepOffsets(offsets, m + 1, rule, risk, text, path,
            KeyedMatchHit(rule, path, LineAtIndex(text, offsets[m]),
                          Substring(text,
                                    Max(0, offsets[m] - KeyedSnippetBefore),
                                    Min(Len(text), offsets[m] + SweepSnippetLen)),
                          risk, acc))

\* the sweep of one rule: an exception ends the sweep of that rule only
\* (the try of line 594)
KeyedSweepRule(rule, text, path, acc) ==
    IF ~Truthy(rule.name) THEN acc
    ELSE KeyedSweepOffsets(ExecAll(text, {rule.name}, 0), 1, rule,
                           assignRisk(rule.quantumSafe,
                                      Coalesce(rule.type, rule.primitive),
                                      rule.name),
                           text, path, acc)

\* multilang-detector.ts:591-642: the raw-text sweep over the rules
RECURSIVE KeyedSweep(_, _, _, _, _)
KeyedSweep(langRules, k, text, path, acc) ==
    IF k > Len(langRules) THEN acc
    ELSE KeyedSweep(langRules, k + 1, text, path,
                    KeyedSweepRule(langRules[k], text, path,
                                   <<acc[1], acc[2], FALSE>>))

\* multilang-detector.ts:491-650: resolves to the findings, or to [] when
\* there is no parser (496-499), no rule (504-507), an empty text (514-516)
\* or an exception caught at line 646 (openTextDocument or parser.parse
\* throwing)
detectMultiLangKeyed(text, path, g) ==
    IF ~g.parser \/ ~g.rules \/ g.openThrows \/ text = <<>> \/ g.parseThrows
    THEN <<>>
    ELSE LET langRules == CRYPTO_RULES.python
             walked == KeyedWalk(ParseTree(text, g.shape), 1, langRules, text,
                                 path, << <<>>, {} >>)
         IN KeyedSweep(langRules, 1, text, path,
                       <<walked[1], walked[2], FALSE>>)[1]

\* the versions of detectMultiLang the file multilang-detector.ts holds
MultiLangVersions == {"prefixed-ids", "detection-keys"}

detectMultiLangOf(version, text, path, g) ==
    IF version = "prefixed-ids" THEN detectMultiLang(text, path, g)
    ELSE detectMultiLangKeyed(text, path, g)

\* multilang-detector.ts:34/169, 56/59 and 492/646: the exceptions of
\* openTextDocument and parser.parse are thrown inside a try whose catch
\* returns []
MultiLangErrorCaughtMut(g) == ~g.parseThrows

MultiLangErrorCaught(g) == TRUE

\* whether an exception of openTextDocument or parser.parse leaves
\* detectMultiLang
MultiLangRejects(g) ==
    g.parser /\ g.rules /\ (g.openThrows \/ g.parseThrows)
        /\ ~MultiLangErrorCaught(g)

\* how the promise of detectMultiLang(uri) settles
SettleMultiLang(version, text, path, g) ==
    IF MultiLangRejects(g)
    THEN [rejected |-> TRUE, assets |-> <<>>]
    ELSE [rejected |-> FALSE, assets |-> detectMultiLangOf(version, text, path, g)]

-----------------------------------------------------------------------------
(* Detector orchestrator: DetectorOrchestrator.scanFile
   (detector-orchestrator.ts:16-26) *)

\* process.cwd()
Cwd == <<"/","w">>

\* path.resolve(filename), for a file name without "." or ".." segments
PathResolve(filename) ==
    IF filename # <<>> /\ filename[1] = "/" THEN filename
    ELSE Cwd \o <<"/">> \o filename

\* the file names scanFile is called with: absolute and relative
OrchFilenames == { <<"/","w","/","a",".","p","y">>, <<"a",".","p","y">> }

\* detector-orchestrator.ts:25
OrchCombineMut(regexHits, astHits) == astHits

OrchCombine(regexHits, astHits) == regexHits \o astHits

OrchInit ==
    /\ oPc = "detectAll"
    /\ oFileState \in FileStates
    /\ oContent \in (IF oFileState = "ok" THEN FileContents ELSE {<<>>})
    /\ oFilename \in OrchFilenames
    /\ oGrammar \in Grammars
    /\ oVersion \in MultiLangVersions
    /\ oRegexHits = <<>>
    /\ oAstRejected = FALSE
    /\ oAstHits = <<>>
    /\ oResult = <<>>

OrchIdle ==
    /\ oPc = "idle"
    /\ oFileState = "ok"
    /\ oContent = <<>>
    /\ oFilename = <<>>
    /\ oGrammar = [parser |-> FALSE, rules |-> FALSE, openThrows |-> FALSE,
                   parseThrows |-> FALSE, shape |-> "root"]
    /\ oVersion = "prefixed-ids"
    /\ oRegexHits = <<>>
    /\ oAstRejected = FALSE
    /\ oAstHits = <<>>
    /\ oResult = <<>>

\* detector-orchestrator.ts:32-35: detectAll reads the file with
\* fs.readFileSync, outside any try: a missing or unreadable file makes the
\* promise of detectAll reject; otherwise scanFile is called on the content
OrchDetectAll ==
    /\ oPc = "detectAll"
    /\ oPc' = IF oFileState = "ok" THEN "call" ELSE "rejected"
    /\ UNCHANGED <<oFileState, oContent, oFilename, oGrammar, oVersion,
                   oRegexHits, oAstRejected, oAstHits, oResult>>
    /\ UNCHANGED nonOrchVars

\* detector-orchestrator.ts:17-23: the lexical scan, then detectMultiLang is
\* started on the resolved path and awaited, a rejection giving []
OrchScan ==
    /\ oPc = "call"
    /\ oRegexHits' = ClassScan(oContent, oFilename)
    /\ oAstRejected' = MultiLangRejects(oGrammar)
    /\ oAstHits' = SettleMultiLang(oVersion, oContent, PathResolve(oFilename),
                                   oGrammar).assets
    /\ oPc' = "await"
    /\ UNCHANGED <<oFileState, oContent, oFilename, oGrammar, oVersion, oResult>>
    /\ UNCHANGED nonOrchVars

\* detector-orchestrator.ts:23-25: the await resumes and scanFile returns
OrchReturn ==
    /\ oPc = "await"
    /\ oResult' = OrchCombine(oRegexHits, oAstHits)
    /\ oPc' = "done"
    /\ UNCHANGED <<oFileState, oContent, oFilename, oGrammar, oVersion,
                   oRegexHits, oAstRejected, oAstHits>>
    /\ UNCHANGED nonOrchVars

OrchNext == OrchDetectAll \/ OrchScan \/ OrchReturn

-----------------------------------------------------------------------------
(* Grammar loader: getParsers (ts-wasm.ts:11-100) *)

\* the number of concurrent callers of getParsers
NumCallers == 3

Callers == 1..NumCallers

\* ts-wasm.ts:11, initPromise = null
NoPromise == 0

\* ts-wasm.ts:77-82, the language keys in load order
configs == <<"python", "java", "c", "cpp">>

WasmLangs == {configs[k] : k \in 1..Len(configs)}

\* ts-wasm.ts:55, if (!initPromise)
NeedsInitMut(p) == TRUE
NeedsInit(p) == p = NoPromise

NoTask == [pc |-> "none", idx |-> 0, loading |-> FALSE, entries |-> {},
           map |-> {}]

NoResult == [promise |-> NoPromise, map |-> {}]

\* ts-wasm.ts:84-95: the loop reaches config k and enters loadLanguage,
\* which waits for Parser.Language.load when the file exists (26-32); past
\* the last config the promise is fulfilled with the map of the entries
EnterLoad(t, k) ==
    IF k > Len(configs)
    THEN [t EXCEPT !.pc = "settled", !.idx = k, !.loading = FALSE,
                   !.map = t.entries]
    ELSE [t EXCEPT !.pc = "load", !.idx = k,
                   !.loading = configs[k] \in wasmPresent]

\* the grammar loads started when the loop reaches config k
LoadsAfter(k) ==
    IF k > Len(configs) THEN loadStarts
    ELSE [loadStarts EXCEPT ![configs[k]] = @ + 1]

\* ts-wasm.ts:61-64 and 69-73: a failed Parser.init() is caught and the
\* async body returns {}, as it does for a missing grammar directory: the
\* promise is fulfilled, never rejected
InitFailureSettlesMut(t) == [t EXCEPT !.pc = "rejected"]

InitFailureSettles(t) == [t EXCEPT !.pc = "settled", !.map = {}]

ParsersInit ==
    /\ initPromise = NoPromise
    /\ tasks = [i \in Callers |-> NoTask]
    /\ initStarts = 0
    /\ loadStarts = [l \in WasmLangs |-> 0]
    /\ baseDirExists \in BOOLEAN
    /\ wasmPresent \in SUBSET WasmLangs
    /\ gCaller = [c \in Callers |-> "idle"]
    /\ gAwait = [c \in Callers |-> NoPromise]
    /\ gJoin = [c \in Callers |-> "none"]
    /\ gGot = [c \in Callers |-> NoResult]

ParsersIdle ==
    /\ initPromise = NoPromise
    /\ tasks = <<>>
    /\ initStarts = 0
    /\ loadStarts = <<>>
    /\ baseDirExists = FALSE
    /\ wasmPresent = {}
    /\ gCaller = <<>>
    /\ gAwait = <<>>
    /\ gJoin = <<>>
    /\ gGot = <<>>

\* ts-wasm.ts:54-100: one call of getParsers up to its return. The async
\* body runs synchronously to its first await, so Parser.init() is started
\* inside the call (56-59)
GetParsers(c) ==
    /\ gCaller[c] = "idle"
    /\ IF NeedsInit(initPromise)
       THEN LET id == 1 + Cardinality({i \in Callers : tasks[i].pc # "none"})
            IN /\ tasks' = [tasks EXCEPT ![id] = [NoTask EXCEPT !.pc = "init"]]
               /\ initStarts' = initStarts + 1
               /\ initPromise' = id
               /\ gJoin' = [gJoin EXCEPT ![c] = "first"]
       ELSE /\ UNCHANGED <<tasks, initStarts, initPromise>>
            /\ gJoin' = [gJoin EXCEPT ![c] =
                            IF tasks[initPromise].pc = "settled"
                            THEN "settled" ELSE "inflight"]
    /\ gAwait' = [gAwait EXCEPT ![c] = initPromise']
    /\ gCaller' = [gCaller EXCEPT ![c] = "waiting"]
    /\ UNCHANGED <<loadStarts, baseDirExists, wasmPresent, gGot>>
    /\ UNCHANGED nonParserVars

\* ts-wasm.ts:59-87: Parser.init() settles; on failure (61-64) or a missing
\* grammar directory (69-73) the promise is fulfilled with {}, otherwise
\* the first grammar load is entered
ParserInitSettles(id, ok) ==
    /\ tasks[id].pc = "init"
    /\ IF ~ok \/ ~baseDirExists
       THEN /\ tasks' = [tasks EXCEPT ![id] = InitFailureSettles(@)]
            /\ UNCHANGED loadStarts
       ELSE /\ tasks' = [tasks EXCEPT ![id] = EnterLoad(@, 1)]
            /\ loadStarts' = LoadsAfter(1)
    /\ UNCHANGED <<initPromise, initStarts, baseDirExists, wasmPresent,
                   gCaller, gAwait, gJoin, gGot>>
    /\ UNCHANGED nonParserVars

\* ts-wasm.ts:85-87 with 16-44: loadLanguage settles with a pair or null,
\* and the loop goes on to the next config
LoadLanguageSettles(id, ok) ==
    /\ tasks[id].pc = "load"
    /\ (~tasks[id].loading => ok)
    /\ LET t  == tasks[id]
           t2 == IF t.loading /\ ok
                 THEN [t EXCEPT !.entries = @ \cup {configs[t.idx]}]
                 ELSE t
       IN /\ tasks' = [tasks EXCEPT ![id] = EnterLoad(t2, t.idx + 1)]
          /\ loadStarts' = LoadsAfter(t.idx + 1)
    /\ UNCHANGED <<initPromise, initStarts, baseDirExists, wasmPresent,
                   gCaller, gAwait, gJoin, gGot>>
    /\ UNCHANGED nonParserVars

\* ts-wasm.ts:108, const parsers = await getParsers(): the caller resumes
\* with the value of the promise it was handed
CallerResumes(c) ==
    /\ gCaller[c] = "waiting"
    /\ tasks[gAwait[c]].pc = "settled"
    /\ gGot' = [gGot EXCEPT ![c] =
                    [promise |-> gAwait[c], map |-> tasks[gAwait[c]].map]]
    /\ gCaller' = [gCaller EXCEPT ![c] = "got"]
    /\ UNCHANGED <<initPromise, tasks, initStarts, loadStarts, baseDirExists,
                   wasmPresent, gAwait, gJoin>>
    /\ UNCHANGED nonParserVars

ParsersNext ==
    \/ \E c \in Callers : GetParsers(c)
    \/ \E id \in Callers, ok \in BOOLEAN : ParserInitSettles(id, ok)
    \/ \E id \in Callers, ok \in BOOLEAN : LoadLanguageSettles(id, ok)
    \/ \E c \in Callers : CallerResumes(c)

-----------------------------------------------------------------------------
(* Repository scan with the external analyzer: scanRepository
   (cli.ts:215-238); performAdvancedScan (scanGithubAdvanced.ts:220-248)
   has the same try/catch around the same calls *)

\* the names of the findings a scanner can report for a repository
FindingLists ==
    { <<>>, <<n_MD5>>, <<n_SHA1>>, <<n_AES>>, <<n_MD5, n_SHA1>>,
      <<n_MD5, n_AES>>, <<n_SHA1, n_AES>>, <<n_MD5, n_SHA1, n_AES>> }

\* how analyzeRepository settles: with findings, or rejected
AnalysisThrows == [threw |-> TRUE, findings |-> <<>>]

AnalysisOutcomes ==
    {[threw |-> FALSE, findings |-> f] : f \in FindingLists}
        \cup {AnalysisThrows}

\* cli.ts:221,231: the catch around the analyzer calls
AnalyzerErrorCaughtMut == FALSE

AnalyzerErrorCaught == TRUE

RepoInit ==
    /\ cPc = "call"
    /\ cUseCodeQL \in BOOLEAN
    /\ cInstalled \in {"yes", "no", "throws"}
    /\ cAnalysis \in AnalysisOutcomes
    /\ cBuiltin \in FindingLists
    /\ cOut = <<>>

RepoIdle ==
    /\ cPc = "idle"
    /\ cUseCodeQL = FALSE
    /\ cInstalled = "no"
    /\ cAnalysis = AnalysisThrows
    /\ cBuiltin = <<>>
    /\ cOut = <<>>

\* cli.ts:220-223 and 237: with useCodeQL the installation check is
\* awaited, otherwise the built-in scanner is called
RepoStart ==
    /\ cPc = "call"
    /\ cPc' = IF cUseCodeQL THEN "installCheck" ELSE "builtin"
    /\ UNCHANGED <<cUseCodeQL, cInstalled, cAnalysis, cBuiltin, cOut>>
    /\ UNCHANGED nonRepoVars

\* cli.ts:222-233: the analyzer is constructed and isCodeQLInstalled
\* settles; not installed (225-228) and an exception caught at 231 both
\* lead to the built-in scanner
RepoInstallSettles ==
    /\ cPc = "installCheck"
    /\ cPc' = IF cInstalled = "yes" THEN "analyze"
              ELSE IF cInstalled = "no" \/ AnalyzerErrorCaught THEN "builtin"
              ELSE "rejected"
    /\ UNCHANGED <<cUseCodeQL, cInstalled, cAnalysis, cBuiltin, cOut>>
    /\ UNCHANGED nonRepoVars

\* cli.ts:230-233: analyzeRepository settles; its findings are returned,
\* its rejection is caught at 231 and leads to the built-in scanner
RepoAnalysisSettles ==
    /\ cPc = "analyze"
    /\ IF ~cAnalysis.threw
       THEN cPc' = "done" /\ cOut' = cAnalysis.findings
       ELSE /\ cPc' = IF AnalyzerErrorCaught THEN "builtin" ELSE "rejected"
            /\ UNCHANGED cOut
    /\ UNCHANGED <<cUseCodeQL, cInstalled, cAnalysis, cBuiltin>>
    /\ UNCHANGED nonRepoVars

\* cli.ts:227, 233, 237: scanWithTreeSitter settles and its findings are
\* returned
RepoBuiltinSettles ==
    /\ cPc = "builtin"
    /\ cOut' = cBuiltin
    /\ cPc' = "done"
    /\ UNCHANGED <<cUseCodeQL, cInstalled, cAnalysis, cBuiltin>>
    /\ UNCHANGED nonRepoVars

RepoNext ==
    RepoStart \/ RepoInstallSettles \/ RepoAnalysisSettles \/ RepoBuiltinSettles

-----------------------------------------------------------------------------
(* One RegexDetector object scanning several files in turn
   (regex-detector.ts:313-379, the object of line 396) *)

\* the number of calls of scan on the one object, at most
MaxScans == 3

\* the contents scanned: one match, one rule on two lines, one rule three
\* times on two lines, a match on line 2
SessContents ==
    { s_sha1,
      Flatten(<<s_sha1, <<"\n">>, s_sha1>>),
      Flatten(<<n_MD5, <<" ">>, s_md5, <<"\n">>, <<"\n">>, n_MD5>>),
      Flatten(<<<<"\n">>, n_AES>>) }

SessFilenames == { <<"a",".","p","y">>, <<"b",".","p","y">> }

\* regex-detector.ts:316, const seenDetections = new Set<string>(): the set
\* a call of scan starts with, given the set the previous call left
SeenAtScanStartMut(left) == left

SeenAtScanStart(left) == {}

SessInit ==
    /\ sPc = "ready"
    /\ sSeen = {}
    /\ sLog = <<>>

SessIdle ==
    /\ sPc = "idle"
    /\ sSeen = {}
    /\ sLog = <<>>

\* regex-detector.ts:313-379: one call of scan(content, filename) on the
\* object
SessScan ==
    /\ sPc = "ready"
    /\ Len(sLog) < MaxScans
    /\ \E content \in SessContents, filename \in SessFilenames :
          LET out == ClassRulesFrom(ClassRules, SplitLines(content), 1, filename,
                                    << <<>>, SeenAtScanStart(sSeen), FALSE >>)
          IN /\ sSeen' = out[2]
             /\ sLog' = Append(sLog, [content |-> content, filename |-> filename,
                                      result |-> out[1]])
    /\ UNCHANGED sPc
    /\ UNCHANGED nonSessVars

SessNext == SessScan

-----------------------------------------------------------------------------
(* The detectors under a rule file whose rules leave optional fields out
   (DetectionRule, regex-detector.ts:264-274: type, primitive and
   quantumSafe are optional) *)

\* the rule MD5 with neither type nor primitive nor quantumSafe
BareRule ==
    [name |-> n_MD5, api |-> Undefined, patterns |-> <<s_md5>>,
     type |-> Undefined, primitive |-> Undefined, quantumSafe |-> "undefined"]

\* the rule files: every rule classified, or the rule MD5 left bare
RuleFiles ==
    { CRYPTO_RULES.python,
      [CRYPTO_RULES.python EXCEPT ![2] = BareRule] }

DataPath == <<"a",".","p","y">>

\* regex-detector.ts:385-393: detectInDocument returns what scan returns;
\* its catch turns an exception of scan into []
ScanErrorToEmpty(scanned) == IF scanned.threw THEN <<>> ELSE scanned.assets

DataInit ==
    /\ uPc = "scan"
    /\ uRules \in RuleFiles
    /\ uText \in TokenTexts
    /\ uScan = [threw |-> FALSE, assets |-> <<>>]
    /\ uDoc = <<>>
    /\ uAst = <<>>

DataIdle ==
    /\ uPc = "idle"
    /\ uRules = <<>>
    /\ uText = <<>>
    /\ uScan = [threw |-> FALSE, assets |-> <<>>]
    /\ uDoc = <<>>
    /\ uAst = <<>>

\* regex-detector.ts:385-393 and 313-379
DataClassScan ==
    /\ uPc = "scan"
    /\ uScan' = ClassScanOf(ClassRulesOf(uRules), uText, DataPath)
    /\ uDoc' = ScanErrorToEmpty(uScan')
    /\ uPc' = "tree"
    /\ UNCHANGED <<uRules, uText, uAst>>
    /\ UNCHANGED nonDataVars

\* multilang-detector.ts:29-173, with a grammar whose tree exposes the words
DataTreeScan ==
    /\ uPc = "tree"
    /\ uAst' = WalkAndSweep(uRules, uText, DataPath, "words")
    /\ uPc' = "done"
    /\ UNCHANGED <<uRules, uText, uScan, uDoc>>
    /\ UNCHANGED nonDataVars

DataNext == DataClassScan \/ DataTreeScan

-----------------------------------------------------------------------------
(* The match-collection loop, one regex.exec per step
   (regex-detector.ts:217-223; multilang-detector.ts:118-121) *)

\* the characters of the texts the loop is run on
ExecChars == {"a", " "}

\* the length of such a text, at most
MaxExecLen == 4

ExecTexts ==
    UNION {[1..n -> ExecChars] : n \in 0..MaxExecLen}
        \cup { Flatten(<<s_md5, <<" ">>, n_MD5>>) }

\* the regexes of the lexical detector: one that matches the empty string
\* at every word boundary, one with an empty and a non-empty alternative,
\* and two that match a word
ExecPatterns == { {<<>>}, {<<>>, <<"a">>}, {<<"a">>}, {s_md5} }

\* the regexes of the raw-text sweep, built around a non-empty
\* rule.api || rule.name (multilang-detector.ts:115-118)
SweepPatterns == {pat \in ExecPatterns : <<>> \notin pat}

\* regex-detector.ts:222, if (match[0].length === 0) regex.lastIndex++,
\* applied to the lastIndex exec left after a match of length n at index
AdvanceAfterMut(index, n) == index + n

AdvanceAfter(index, n) == IF n = 0 THEN index + n + 1 ELSE index + n

\* a run is followed for this many iterations of the loop body
IterCap(text) == Len(text) + 3

ExecInit ==
    /\ xPc = "loop"
    /\ xKind \in {"detector", "sweep"}
    /\ xText \in ExecTexts
    /\ xPattern \in (IF xKind = "sweep" THEN SweepPatterns ELSE ExecPatterns)
    /\ xLastIndex = 0
    /\ xOffsets = <<>>
    /\ xIters = 0

ExecIdle ==
    /\ xPc = "idle"
    /\ xKind = "detector"
    /\ xText = <<>>
    /\ xPattern = {}
    /\ xLastIndex = 0
    /\ xOffsets = <<>>
    /\ xIters = 0

\* regex-detector.ts:220-223: regex.exec(text) finds the first match at or
\* after lastIndex and the body records it; multilang-detector.ts:121 has
\* the same loop without the advance after an empty match
ExecMatch ==
    /\ xPc = "loop"
    /\ xIters < IterCap(xText)
    /\ \E index \in xLastIndex..Len(xText) :
          /\ MatchLenAt(xText, index, xPattern) >= 0
          /\ \A j \in xLastIndex..(index - 1) : MatchLenAt(xText, j, xPattern) < 0
          /\ xOffsets' = Append(xOffsets, index)
          /\ xLastIndex' =
                IF xKind = "detector"
                THEN AdvanceAfter(index, MatchLenAt(xText, index, xPattern))
                ELSE index + MatchLenAt(xText, index, xPattern)
    /\ xIters' = xIters + 1
    /\ UNCHANGED <<xPc, xKind, xText, xPattern>>
    /\ UNCHANGED nonExecVars

\* regex.exec(text) returns null, which resets lastIndex, and the loop ends
ExecNoMatch ==
    /\ xPc = "loop"
    /\ \A index \in xLastIndex..Len(xText) : MatchLenAt(xText, index, xPattern) < 0
    /\ xPc' = "done"
    /\ xLastIndex' = 0
    /\ UNCHANGED <<xKind, xText, xPattern, xOffsets, xIters>>
    /\ UNCHANGED nonExecVars

ExecNext == ExecMatch \/ ExecNoMatch

-----------------------------------------------------------------------------
(* Workspace scanner: scanWorkspace (index.ts:175-238) *)

\* index.ts:80-90, the extensions a source file name can end in
EXCLUDED_EXTENSIONS ==
    { <<".","j","s","o","n">>, <<".","m","d">>, <<".","t","x","t">>,
      <<".","l","o","c","k">>, <<".","l","o","g">> }

s_lock == <<"l","o","c","k">>
s_cbom == <<"c","b","o","m">>

\* path.extname of a file name without directories
ExtName(p) ==
    LET dots == {i \in 2..Len(p) : p[i] = "."}
    IN IF dots = {} THEN <<>>
       ELSE SubSeq(p, CHOOSE i \in dots : \A j \in dots : j <= i, Len(p))

\* index.ts:95-118
shouldSkipFile(path) ==
    LET ext      == ToLowerCase(ExtName(path))
        filename == ToLowerCase(path)
    IN \/ ext \in EXCLUDED_EXTENSIONS
       \/ (Includes(filename, s_cbom) /\ ext = <<".","j","s","o","n">>)
       \/ Includes(filename, s_lock)

\* the file names findFiles can return
Paths == { <<"a",".","p","y">>, <<"b",".","c">>, <<"l","o","c","k",".","c">> }

\* the number of files of the workspace, at most
MaxFiles == 2

FileLists ==
    { fl \in UNION {[1..n -> Paths] : n \in 0..MaxFiles} :
        \A i, j \in 1..Len(fl) : i # j => fl[i] # fl[j] }

\* detector.detectInDocument(uri), index.ts:208-209: the plugin form
\* (regex-detector.ts:200-255) resolves to [] for a missing file and rejects
\* when readFileSync throws; the class form (regex-detector.ts:385-393)
\* catches the read error and resolves to []
detectInDocument(kind, path, fstate, text) ==
    IF kind = "plugin"
    THEN CASE fstate = "missing"    -> [threw |-> FALSE, assets |-> <<>>]
           [] fstate = "unreadable" -> [threw |-> TRUE, assets |-> <<>>]
           [] OTHER -> [threw |-> FALSE, assets |-> PluginScan(text, path)]
    ELSE IF fstate = "ok"
         THEN [threw |-> FALSE, assets |-> ClassScan(text, path)]
         ELSE [threw |-> FALSE, assets |-> <<>>]

IndexOfId(map, id) ==
    IF \E i \in 1..Len(map) : map[i].id = id
    THEN CHOOSE i \in 1..Len(map) : map[i].id = id
    ELSE 0

\* index.ts:220: (existing.occurrences || 0) + (asset.occurrences || 1)
MergedOccurrencesMut(existing, asset) == asset.occurrences

MergedOccurrences(existing, asset) ==
    existing.occurrences + (IF asset.occurrences = 0 THEN 1 ELSE asset.occurrences)

\* index.ts:213-223: one asset merged into assetMap
MergeAsset(map, asset) ==
    LET i == IndexOfId(map, asset.id) IN
    IF i = 0 THEN Append(map, asset)
    ELSE [map EXCEPT ![i] =
            [@ EXCEPT !.occurrences = MergedOccurrences(map[i], asset),
                      !.detectionContexts = @ \o asset.detectionContexts]]

\* index.ts:212-224
RECURSIVE MergeAssets(_, _)
MergeAssets(map, assets) ==
    IF assets = <<>> THEN map
    ELSE MergeAssets(MergeAsset(map, Head(assets)), Tail(assets))

\* index.ts:195: if (token?.isCancellationRequested)
CancellationRequestedMut(c, i) == c /\ i = 1

CancellationRequested(c, i) == c

\* index.ts:207,225: the try/catch around detection and merge
FileErrorCaughtMut(p) == ~p.threw

FileErrorCaught(p) == TRUE

\* index.ts:230-231 (and 202-203)
ReportProgressMut ==
    /\ processed' = processed + 1
    /\ progress' = Append(progress, [processed |-> processed,
                                     total |-> Len(files)])

ReportProgress ==
    /\ processed' = processed + 1
    /\ progress' = Append(progress, [processed |-> processed + 1,
                                     total |-> Len(files)])

WsInit ==
    /\ wPc = "start"
    /\ files \in FileLists
    /\ detector \in {"plugin", "class"}
    /\ idx = 1
    /\ processed = 0
    /\ assetMap = <<>>
    /\ cancelled = FALSE
    /\ progress = <<>>
    /\ pending = None
    /\ calls = <<>>
    /\ results = <<>>

WsIdle ==
    /\ wPc = "idle"
    /\ files = <<>>
    /\ detector = "plugin"
    /\ idx = 1
    /\ processed = 0
    /\ assetMap = <<>>
    /\ cancelled = FALSE
    /\ progress = <<>>
    /\ pending = None
    /\ calls = <<>>
    /\ results = <<>>

\* index.ts:183-192: await findFiles resolves
WsFindFiles ==
    /\ wPc = "start"
    /\ wPc' = "loop"
    /\ UNCHANGED <<files, detector, idx, processed, assetMap, cancelled,
                   progress, pending, calls, results>>
    /\ UNCHANGED nonWsVars

\* the user cancels: the token is signalled while the scan is suspended
\* at an await (index.ts:183, 209)
WsCancel ==
    /\ wPc \in {"start", "detecting"}
    /\ ~cancelled
    /\ cancelled' = TRUE
    /\ UNCHANGED <<wPc, files, detector, idx, processed, assetMap,
                   progress, pending, calls, results>>
    /\ UNCHANGED nonWsVars

\* index.ts:195-198: break, then 234-237
WsBreak ==
    /\ wPc = "loop" /\ idx <= Len(files)
    /\ CancellationRequested(cancelled, idx)
    /\ results' = assetMap
    /\ wPc' = "done"
    /\ UNCHANGED <<files, detector, idx, processed, assetMap, cancelled,
                   progress, pending, calls>>
    /\ UNCHANGED nonWsVars

\* index.ts:201-205
WsSkip ==
    /\ wPc = "loop" /\ idx <= Len(files)
    /\ ~CancellationRequested(cancelled, idx)
    /\ shouldSkipFile(files[idx])
    /\ ReportProgress
    /\ idx' = idx + 1
    /\ UNCHANGED <<wPc, files, detector, assetMap, cancelled, pending,
                   calls, results>>
    /\ UNCHANGED nonWsVars

\* index.ts:207-209: the detector is invoked and reads the file
WsStartDetect ==
    /\ wPc = "loop" /\ idx <= Len(files)
    /\ ~CancellationRequested(cancelled, idx)
    /\ ~shouldSkipFile(files[idx])
    /\ \E fstate \in FileStates, text \in FileContents :
          LET out == detectInDocument(detector, files[idx], fstate, text)
          IN /\ pending' = out
             /\ calls' = Append(calls, [file |-> idx, signalled |-> cancelled,
                                        text |-> IF fstate = "ok" THEN text ELSE Undefined,
                                        threw |-> out.threw,
                                        assets |-> out.assets])
    /\ wPc' = "detecting"
    /\ UNCHANGED <<files, detector, idx, processed, assetMap, cancelled,
                   progress, results>>
    /\ UNCHANGED nonWsVars

\* index.ts:209-231: the await resumes; merge or catch, then progress
WsResume ==
    /\ wPc = "detecting"
    /\ IF pending.threw /\ ~FileErrorCaught(pending)
       THEN /\ wPc' = "rejected"
            /\ UNCHANGED <<idx, processed, assetMap, progress>>
       ELSE /\ assetMap' = IF pending.threw THEN assetMap
                           ELSE MergeAssets(assetMap, pending.assets)
            /\ ReportProgress
            /\ idx' = idx + 1
            /\ wPc' = "loop"
    /\ pending' = None
    /\ UNCHANGED <<files, detector, cancelled, calls, results>>
    /\ UNCHANGED nonWsVars

\* index.ts:234-237: the loop is over
WsReturn ==
    /\ wPc = "loop" /\ idx > Len(files)
    /\ results' = assetMap
    /\ wPc' = "done"
    /\ UNCHANGED <<files, detector, idx, processed, assetMap, cancelled,
                   progress, pending, calls>>
    /\ UNCHANGED nonWsVars

WsNext ==
    \/ WsFindFiles
    \/ WsCancel
    \/ WsBreak
    \/ WsSkip
    \/ WsStartDetect
    \/ WsResume
    \/ WsReturn

Init == WsInit /\ RiskIdle /\ OrchIdle /\ ParsersIdle
    /\ IndexIdle
    /\ LexIdle
    /\ RepoIdle
    /\ ExecIdle
    /\ SessIdle
    /\ TreeWalkIdle
    /\ DataIdle

Next == WsNext

Spec == Init /\ [][Next]_vars

RiskNext == CallAssignRisk

InitRisk == RiskInit /\ WsIdle /\ OrchIdle /\ ParsersIdle
    /\ IndexIdle
    /\ LexIdle
    /\ RepoIdle
    /\ ExecIdle
    /\ SessIdle
    /\ TreeWalkIdle
    /\ DataIdle

SpecRisk == InitRisk /\ [][RiskNext]_vars

InitOrch == OrchInit /\ WsIdle /\ RiskIdle /\ ParsersIdle
    /\ IndexIdle
    /\ LexIdle
    /\ RepoIdle
    /\ ExecIdle
    /\ SessIdle
    /\ TreeWalkIdle
    /\ DataIdle

SpecOrch == InitOrch /\ [][OrchNext]_vars

InitParsers == ParsersInit /\ WsIdle /\ RiskIdle /\ OrchIdle
    /\ IndexIdle
    /\ LexIdle
    /\ RepoIdle
    /\ ExecIdle
    /\ SessIdle
    /\ TreeWalkIdle
    /\ DataIdle

SpecParsers == InitParsers /\ [][ParsersNext]_vars

InitIndex == IndexInit /\ WsIdle /\ RiskIdle /\ OrchIdle /\ ParsersIdle
    /\ LexIdle
    /\ RepoIdle
    /\ ExecIdle
    /\ SessIdle
    /\ TreeWalkIdle
    /\ DataIdle

SpecIndex == InitIndex /\ [][IndexNext]_vars

InitLex ==
    LexInit /\ WsIdle /\ RiskIdle /\ OrchIdle /\ ParsersIdle /\ IndexIdle
        /\ RepoIdle /\ ExecIdle
    /\ SessIdle
    /\ TreeWalkIdle
    /\ DataIdle

SpecLex == InitLex /\ [][LexNext]_vars

InitRepo ==
    RepoInit /\ WsIdle /\ RiskIdle /\ OrchIdle /\ ParsersIdle /\ IndexIdle
        /\ LexIdle /\ ExecIdle
    /\ SessIdle
    /\ TreeWalkIdle
    /\ DataIdle

SpecRepo == InitRepo /\ [][RepoNext]_vars

InitExec ==
    ExecInit /\ WsIdle /\ RiskIdle /\ OrchIdle /\ ParsersIdle /\ IndexIdle
        /\ LexIdle /\ RepoIdle
    /\ SessIdle
    /\ TreeWalkIdle
    /\ DataIdle

\* the loop is synchronous code: a step that can be taken is taken
SpecExec == InitExec /\ [][ExecNext]_vars /\ WF_vars(ExecNext)

InitSess ==
    SessInit /\ WsIdle /\ RiskIdle /\ OrchIdle /\ ParsersIdle /\ IndexIdle
        /\ LexIdle /\ RepoIdle /\ ExecIdle
    /\ TreeWalkIdle
    /\ DataIdle

SpecSess == InitSess /\ [][SessNext]_vars

InitTreeWalk ==
    TreeWalkInit /\ WsIdle /\ RiskIdle /\ OrchIdle /\ ParsersIdle /\ IndexIdle
        /\ LexIdle /\ RepoIdle /\ ExecIdle /\ SessIdle
    /\ DataIdle

SpecTreeWalk == InitTreeWalk /\ [][TreeWalkNext]_vars

InitData ==
    DataInit /\ WsIdle /\ RiskIdle /\ OrchIdle /\ ParsersIdle /\ IndexIdle
        /\ LexIdle /\ RepoIdle /\ ExecIdle /\ SessIdle /\ TreeWalkIdle

SpecData == InitData /\ [][DataNext]_vars

-----------------------------------------------------------------------------
(* Claims about the risk classifier *)

RiskReturned == rPc = "done" /\ rOut # None /\ ~rOut.threw

\* C8: for every quantumSafe value, type string and name, the score
\* returned by assignRisk lies in the closed range [0, 100].
C8_ScoreInRange ==
    RiskReturned => (rOut.score >= 0 /\ rOut.score <= 100)

\* a call whose unclamped sum is above 100 (MD5, false, cipher: 95+20+5)
C8_Witness ==
    /\ RiskReturned
    /\ rName = <<"M","D","5">> /\ rQs = "false" /\ rType = s_cipher
    /\ rOut.score = 100

C9_Q ==
    IF rQs = "false" THEN 20
    ELSE IF rQs = "partial" THEN 10
    ELSE IF rQs = "true" THEN 0 - 10
    ELSE 0

C9_TypeHas(word) == Includes(ToLowerCase(rType), word)

C9_T ==
      (IF C9_TypeHas(s_cipher) \/ C9_TypeHas(s_encryption) THEN 5 ELSE 0)
    + (IF C9_TypeHas(s_signature) \/ C9_TypeHas(s_keygen) THEN 10 ELSE 0)
    - (IF C9_TypeHas(s_hash) THEN 5 ELSE 0)

C9_Sum == rBase + C9_Q + C9_T

\* C9: the score is min(100, max(0, base(name) + q + t)), q being +20 for
\* false, +10 for "partial", -10 for true and 0 for "unknown", t adding +5
\* for a type containing cipher/encryption, +10 for signature/keygen and -5
\* for hash (the type is read lower-cased, as the code reads it);
\* assignRisk(false, "hash", "MD5") scores 100 with severity high.
C9_ScoreFormula ==
    RiskReturned =>
        /\ rOut.score = (IF C9_Sum > 100 THEN 100
                         ELSE IF C9_Sum < 0 THEN 0 ELSE C9_Sum)
        /\ (rQs = "false" /\ rType = s_hash /\ rName = <<"M","D","5">>)
              => (C9_Sum = 110 /\ rOut.score = 100 /\ rOut.severity = "high")

\* the example call of the claim has returned, and a call where the three
\* type adjustments add up has returned
C9_Witness ==
    /\ RiskReturned
    /\ rQs = "false" /\ rType = s_hash /\ rName = <<"M","D","5">>
    /\ rOut.score = 100

C10_Has(words) == \E w \in words : Includes(ToLowerCase(rName), w)

C10_Base ==
    IF C10_Has({s_md5, s_sha1, s_des, s_rc4}) THEN 95
    ELSE IF C10_Has({s_rsa, s_ecdsa}) THEN 80
    ELSE IF C10_Has({s_aes, s_sha256, s_sha512}) THEN 50
    ELSE IF C10_Has({s_kyber, s_dilithium, s_falcon, s_sphincs}) THEN 20
    ELSE 50

\* C10: the base score is picked by case-insensitive substring match of the
\* name against the tiers in priority order, first match wins: md5, sha1,
\* des, rc4 -> 95 even when a later tier's token is present; else rsa,
\* ecdsa -> 80; else aes, sha256, sha512 -> 50; else kyber, dilithium,
\* falcon, sphincs -> 20; no tier -> 50. With quantumSafe "unknown" and a
\* type without keyword the returned score is that base.
C10_BaseByTier ==
    RiskReturned =>
        /\ rBase = C10_Base
        /\ (rQs = "unknown" /\ C9_T = 0) => rOut.score = C10_Base
        /\ (rOut.explanation = "broken")
              <=> C10_Has({s_md5, s_sha1, s_des, s_rc4})

\* a name holding tokens of two tiers got the base of the earlier tier
C10_Witness ==
    /\ RiskReturned
    /\ rName = <<"R","S","A","-","M","D","5">>
    /\ rQs = "unknown" /\ rType = <<>>
    /\ rOut.score = 95

\* C11: the severity assignRisk returns depends on the returned score
\* alone: high exactly when score >= 75, medium exactly when
\* 45 <= score < 75, low exactly when score < 45.
C11_SeverityByScore ==
    RiskReturned =>
        /\ (rOut.severity = "high") <=> (rOut.score >= 75)
        /\ (rOut.severity = "medium") <=> (rOut.score >= 45 /\ rOut.score < 75)
        /\ (rOut.severity = "low") <=> (rOut.score < 45)

\* a call that returned exactly the threshold 75 (RSA, unknown, hash:
\* 80 + 0 - 5) with severity high
C11_Witness ==
    /\ RiskReturned
    /\ rOut.score = 75 /\ rOut.severity = "high"
    /\ rQs = "unknown" /\ rType = s_hash

\* the quantum-safety flags from the least safe to the safest, as the claim
\* orders them
SaferFlag(qs) ==
    CASE qs = "false"   -> "partial"
      [] qs = "partial" -> "unknown"
      [] OTHER          -> "true"

SeverityRank(severity) ==
    CASE severity = "high"   -> 3
      [] severity = "medium" -> 2
      [] OTHER               -> 1

\* C27: assignRisk is monotone in the quantum-safety flag: for every name
\* and type, score(false) >= score("partial") >= score("unknown") >=
\* score(true), and the severity never gets higher along that order.
C27_MonotoneInQuantumSafe ==
    RiskReturned =>
        LET safer == assignRisk(SaferFlag(rQs), rType, rName)
        IN /\ rOut.score >= safer.score
           /\ SeverityRank(rOut.severity) >= SeverityRank(safer.severity)

\* assignRisk("unknown", "hash", "AES") returned 45, medium, and the same
\* call with the flag true gives 35, low
C27_Witness ==
    /\ RiskReturned
    /\ rQs = "unknown" /\ rType = s_hash /\ rName = <<"A","E","S">>
    /\ rOut.score = 45 /\ rOut.severity = "medium"
    /\ assignRisk("true", rType, rName).score = 35
    /\ assignRisk("true", rType, rName).severity = "low"

\* the name holds md5, sha1, des or rc4, in any case
BrokenName(name) ==
    \/ Includes(ToLowerCase(name), s_md5) \/ Includes(ToLowerCase(name), s_sha1)
    \/ Includes(ToLowerCase(name), s_des) \/ Includes(ToLowerCase(name), s_rc4)

\* C28: an algorithm whose name contains md5, sha1, des or rc4, in any
\* case, is given the severity high by assignRisk, for every quantumSafe
\* value and every type string.
C28_BrokenAlwaysHigh ==
    (RiskReturned /\ BrokenName(rName)) => rOut.severity = "high"

\* the lowest score of a broken name: 3DES, quantum-safe, hash, 95 - 10 - 5
C28_Witness ==
    /\ RiskReturned
    /\ rName = <<"3","D","E","S">>
    /\ rQs = "true" /\ rType = s_hash
    /\ rOut.score = 80 /\ rOut.severity = "high"

-----------------------------------------------------------------------------
(* Claims about the position indexer *)

\* the number of "\n" characters at the 0-based positions before off
NewlinesBefore(text, off) ==
    Cardinality({i \in 1..off : text[i] = "\n"})

\* C12: for every text and every list of offsets within 0..text length,
\* offsetToLineNumbers returns the values 1 + (number of "\n" before the
\* offset), each once, in ascending order; for "SHA256\nAES\n" offset 0 is
\* on line 1 and offset 7 on line 2.
C12_LinesOfOffsets ==
    iPc = "done" =>
        /\ {iLines[k] : k \in 1..Len(iLines)}
              = {1 + NewlinesBefore(iText, iOffsets[k]) : k \in 1..Len(iOffsets)}
        /\ \A k \in 1..(Len(iLines) - 1) : iLines[k] < iLines[k + 1]
        /\ (iText = s_sha256AesLines /\ iOffsets = <<0, 7>>) => iLines = <<1, 2>>

\* the example of the claim has returned; the offsets 7 (a line start) and
\* 11 (end of file, after the last "\n") have been mapped as well
C12_Witness ==
    /\ iPc = "done"
    /\ iText = s_sha256AesLines
    /\ iOffsets = <<11, 7>>
    /\ iLines = <<2, 3>>

\* C30: the three line computations of the detectors agree: for every
\* text and every offset within it, the line offsetToLineNumbers gives
\* (line-start table and binary search), text.substring(0,
\* offset).split("\n").length of the syntax-tree detector and the index + 1
\* of the element of content.split("\n") holding the offset, used by
\* RegexDetector.scan, are the same number.
C30_LineComputationsAgree ==
    iPc = "done" =>
        /\ \A k \in 1..Len(iOffsets) :
              /\ LineOfOffset(iText, iOffsets[k]) = LineAtIndex(iText, iOffsets[k])
              /\ LineOfOffset(iText, iOffsets[k]) = ScanLineOf(iText, iOffsets[k])
        /\ iLines = SortedSeq({LineAtIndex(iText, iOffsets[k]) : k \in 1..Len(iOffsets)})
        /\ iLines = SortedSeq({ScanLineOf(iText, iOffsets[k]) : k \in 1..Len(iOffsets)})

\* the offset of the "\n" that ends line 1 and the offset that starts line
\* 2 of "SHA256\nAES\n" were mapped, to 1 and 2 by all three
C30_Witness ==
    /\ iPc = "done"
    /\ iText = s_sha256AesLines
    /\ iOffsets = <<6, 7>>
    /\ iLines = <<1, 2>>
    /\ LineAtIndex(iText, 6) = 1 /\ ScanLineOf(iText, 6) = 1
    /\ LineAtIndex(iText, 7) = 2 /\ ScanLineOf(iText, 7) = 2

-----------------------------------------------------------------------------
(* Claims about the lexical detectors *)

\* the assets of a result that carry the name of a rule
AssetsNamed(res, name) == {k \in 1..Len(res) : res[k].name = name}

\* the non-overlapping matches of a rule of the class form in a text, its
\* pattern variants taken together
ClassRuleMatches(text, rule) ==
    ExecAll(text, {rule.patterns[k] : k \in 1..Len(rule.patterns)}, 0)

\* what the claim asks of the assets a result holds for one rule with the
\* given matches
OneAssetPerRule(res, name, matches) ==
    /\ Cardinality(AssetsNamed(res, name)) = (IF matches = <<>> THEN 0 ELSE 1)
    /\ \A k \in AssetsNamed(res, name) : res[k].occurrences = Len(matches)

\* the claim, for the plugin form alone
PluginOneAssetPerRule ==
    \A k \in 1..Len(algorithmDB) :
        OneAssetPerRule(lPlugin, algorithmDB[k].name,
                        ExecAll(lText, algorithmDB[k].regex, 0))

\* C13: for every text the lexical detector emits at most one asset per
\* rule, none when the rule has no match, whose occurrences is the number
\* of non-overlapping matches of the rule in the text, the pattern variants
\* of one rule accumulating into that one asset.
C13_OneAssetPerRule ==
    lPc = "done" =>
        /\ PluginOneAssetPerRule
        /\ \A k \in 1..Len(ClassRules) :
              OneAssetPerRule(lClass, ClassRules[k].name,
                              ClassRuleMatches(lText, ClassRules[k]))

\* the snippets of the detection contexts of a result are no longer than n
SnippetsAtMost(res, n) ==
    \A k \in 1..Len(res) :
        \A c \in 1..Len(res[k].detectionContexts) :
            Len(res[k].detectionContexts[c].snippet) <= n

\* the claim, for the plugin form alone
PluginSnippetsAtMost300 == SnippetsAtMost(lPlugin, 300)

\* C23: every detection context a detector produces carries a snippet of
\* at most 300 characters, whatever the length of the matched line.
C23_SnippetAtMost300 ==
    /\ SnippetsAtMost(lPlugin, 300)
    /\ SnippetsAtMost(lClass, 300)

-----------------------------------------------------------------------------
(* Claims about one detector object scanning several files *)

-----------------------------------------------------------------------------
(* Claims about the repository scan *)

\* the analyzer was requested and is not installed, or a call to it threw
AnalyzerUnavailable ==
    /\ cUseCodeQL
    /\ \/ cInstalled # "yes"
       \/ cAnalysis = AnalysisThrows

\* C19: when the external analyzer is requested but is not installed, or
\* its analysis throws, the repository scan is not aborted: it falls back
\* to the built-in scanner and returns that scanner's findings; the error
\* of the analyzer does not propagate.
C19_FallbackToBuiltin ==
    /\ cPc # "rejected"
    /\ (cPc = "done" /\ AnalyzerUnavailable) => cOut = cBuiltin

\* the analysis threw and the findings of the built-in scanner came back
C19_Witness ==
    /\ cPc = "done"
    /\ cUseCodeQL /\ cInstalled = "yes" /\ cAnalysis = AnalysisThrows
    /\ cBuiltin = <<n_MD5, n_AES>> /\ cOut = cBuiltin

-----------------------------------------------------------------------------
(* Claims about the match-collection loop *)

\* C20: the match-collection loop terminates for every text and every
\* pattern, also one that can match the empty string: the scan cursor
\* strictly increases on every iteration (after an empty match it is
\* advanced by one), the body runs at most text length + 1 times, and the
\* loop ends.
C20_LoopTerminates ==
    /\ [][(xPc = "loop" /\ xPc' = "loop") => xLastIndex' > xLastIndex]_vars
    /\ [](xIters <= Len(xText) + 1)
    /\ <>(xPc = "done")

\* the loop of the lexical detector ended after an empty match at every
\* word boundary of a text of two words
C20_Witness ==
    /\ xPc = "done" /\ xKind = "detector"
    /\ xPattern = {<<>>}
    /\ xText = <<"a", " ", "a">>
    /\ xOffsets = <<0, 1, 2, 3>>

-----------------------------------------------------------------------------
(* Claims about the workspace scanner *)

\* the findings the detector calls resolved to, in call order
RECURSIVE ReportedFrom(_)
ReportedFrom(k) ==
    IF k > Len(calls) THEN <<>>
    ELSE (IF calls[k].threw THEN <<>> ELSE calls[k].assets) \o ReportedFrom(k + 1)

Reported == ReportedFrom(1)

RECURSIVE SumOccurrences(_, _)
SumOccurrences(fs, id) ==
    IF fs = <<>> THEN 0
    ELSE (IF Head(fs).id = id THEN Head(fs).occurrences ELSE 0)
            + SumOccurrences(Tail(fs), id)

RECURSIVE ConcatContexts(_, _)
ConcatContexts(fs, id) ==
    IF fs = <<>> THEN <<>>
    ELSE (IF Head(fs).id = id THEN Head(fs).detectionContexts ELSE <<>>)
            \o ConcatContexts(Tail(fs), id)

RECURSIVE SumLineCounts(_)
SumLineCounts(ctxs) ==
    IF ctxs = <<>> THEN 0
    ELSE Len(Head(ctxs).lineNumbers) + SumLineCounts(Tail(ctxs))

\* list a is the assets of the findings fs merged by identity
MergedById(a, fs) ==
    /\ \A i \in 1..Len(a) : \E k \in 1..Len(fs) : fs[k].id = a[i].id
    /\ \A k \in 1..Len(fs) :
          /\ Cardinality({i \in 1..Len(a) : a[i].id = fs[k].id}) = 1
          /\ \A i \in 1..Len(a) :
                a[i].id = fs[k].id =>
                    /\ a[i].occurrences = SumOccurrences(fs, fs[k].id)
                    /\ a[i].detectionContexts = ConcatContexts(fs, fs[k].id)

\* C2: when scanWorkspace has run to completion its result holds exactly
\* one asset per distinct id reported by a scanned file, with occurrences
\* the sum of the occurrences of the per-file findings of that id and
\* detectionContexts their concatenation in file-iteration order.
C2_MergeById ==
    wPc = "done" => MergedById(results, Reported)

\* two files reported the same id and the scan has returned
C2_Witness ==
    /\ wPc = "done" /\ ~cancelled
    /\ Len(calls) = 2
    /\ \E i \in 1..Len(calls[1].assets), j \in 1..Len(calls[2].assets) :
          calls[1].assets[i].id = calls[2].assets[j].id
    /\ \E i \in 1..Len(results) :
          results[i].occurrences >= 2 /\ Len(results[i].detectionContexts) = 2

\* the text holds exactly one instance of AES
OneAes(text) == text # Undefined /\ Len(ExecAll(text, AesRegex, 0)) = 1

\* the assets of the workspace result named AES
AesResults == {i \in 1..Len(results) : results[i].name = n_AES}

\* two files were scanned and each held one instance of AES
TwoFilesOneAesEach ==
    /\ wPc = "done"
    /\ Len(files) = 2 /\ Len(calls) = 2
    /\ \A k \in 1..2 : ~calls[k].threw /\ OneAes(calls[k].text)

\* C14: a workspace of two files that each hold one instance of AES yields
\* one workspace-level AES asset with occurrences 2 and two
\* detectionContexts, whatever the paths and whatever line each instance
\* is on.
C14_TwoFilesOneAes ==
    TwoFilesOneAesEach =>
        /\ Cardinality(AesResults) = 1
        /\ \A i \in AesResults :
              /\ results[i].occurrences = 2
              /\ Len(results[i].detectionContexts) = 2

\* every asset a detector returned and every asset of the workspace map
AssetsInPlay ==
    {assetMap[i] : i \in 1..Len(assetMap)}
        \cup (IF pending = None THEN {}
              ELSE {pending.assets[i] : i \in 1..Len(pending.assets)})
        \cup {results[i] : i \in 1..Len(results)}

\* no pattern of any rule matches twice on one line of the text
NoLineMatchedTwice(text) ==
    LET pats == {algorithmDB[k].regex : k \in 1..Len(algorithmDB)}
                  \cup UNION {{ {ClassRules[k].patterns[p]} :
                                    p \in 1..Len(ClassRules[k].patterns)} :
                              k \in 1..Len(ClassRules)}
    IN \A pat \in pats :
          LET offs == ExecAll(text, pat, 0)
          IN \A i, j \in 1..Len(offs) :
                i # j => LineOfOffset(text, offs[i]) # LineOfOffset(text, offs[j])

\* C3 as stated: occurrences equals the sum of lineNumbers.length over the
\* asset's detectionContexts, for every asset a detector returned and every
\* asset of the workspace result, also when a rule matches several times
\* on one line.
C3_OccurrencesEqualLines ==
    \A a \in AssetsInPlay :
        a.occurrences = SumLineCounts(a.detectionContexts)

\* C3 amended: occurrences is at least the sum of lineNumbers.length over
\* the asset's detectionContexts, and equals it whenever no rule matched
\* more than once on one line of a scanned file.
C3_OccurrencesAtLeastLines ==
    \A a \in AssetsInPlay :
        /\ a.occurrences >= SumLineCounts(a.detectionContexts)
        /\ (\A k \in 1..Len(calls) :
                calls[k].text # Undefined => NoLineMatchedTwice(calls[k].text))
              => a.occurrences = SumLineCounts(a.detectionContexts)

\* an asset merged from two files, and one whose rule matched twice on a line
C3_Witness ==
    /\ wPc = "done"
    /\ \E i \in 1..Len(results) :
          /\ Len(results[i].detectionContexts) = 2
          /\ results[i].occurrences > SumLineCounts(results[i].detectionContexts)

\* C4: once the token is signalled no further file's detection starts:
\* every detector invocation follows a check at which the token was
\* unsignalled; the scan then ends without throwing and returns the assets
\* merged from the files processed so far.
C4_CancelStopsNewFiles ==
    /\ [][cancelled => calls' = calls]_vars
    /\ [](\A k \in 1..Len(calls) : ~calls[k].signalled)
    /\ [](cancelled => wPc # "rejected")
    /\ []((wPc = "done" /\ cancelled) =>
            (results = assetMap /\ MergedById(results, Reported)))

\* cancelled after the first of two files: the scan returned that file's assets
C4_Witness ==
    /\ wPc = "done" /\ cancelled
    /\ Len(files) = 2 /\ idx = 2 /\ Len(calls) = 1
    /\ results # <<>>

\* C5: onProgress is called after every file the loop handles (findings, no
\* findings, skipped, detector threw) with a processed count that never
\* decreases and never exceeds total; after a cancellation the last value
\* is at most the number of files, and without cancellation it is total.
C5_Progress ==
    /\ wPc \in {"loop", "detecting"} => Len(progress) = idx - 1
    /\ \A k \in 1..Len(progress) :
          /\ progress[k].total = Len(files)
          /\ progress[k].processed <= progress[k].total
          /\ k > 1 => progress[k - 1].processed <= progress[k].processed
    /\ (wPc = "done" /\ ~cancelled /\ files # <<>>) =>
          (/\ Len(progress) = Len(files)
           /\ progress[Len(progress)].processed = Len(files))

\* a scan of a skipped file and a file whose detector threw has returned
C5_Witness ==
    /\ wPc = "done" /\ ~cancelled
    /\ Len(files) = 2 /\ Len(calls) = 1 /\ calls[1].threw
    /\ Len(progress) = 2 /\ progress[2].processed = 2

NotSkipped == {i \in 1..Len(files) : ~shouldSkipFile(files[i])}

\* C6: a detector that throws for one file neither aborts the scan nor
\* makes scanWorkspace reject: the later files are scanned, progress is
\* reported for the failing file, and the result is the merge of the
\* findings of the files that did not fail.
C6_FileErrorSwallowed ==
    /\ wPc # "rejected"
    /\ (wPc = "loop" /\ calls # <<>> /\ calls[Len(calls)].threw) =>
          (/\ Len(progress) >= calls[Len(calls)].file
           /\ progress[calls[Len(calls)].file].processed = calls[Len(calls)].file)
    /\ (wPc = "done" /\ ~cancelled) =>
          (/\ {calls[k].file : k \in 1..Len(calls)} = NotSkipped
           /\ \A i \in 1..Len(results) :
                 \E k \in 1..Len(calls) :
                    /\ ~calls[k].threw
                    /\ \E j \in 1..Len(calls[k].assets) :
                          calls[k].assets[j].id = results[i].id
           /\ \A k \in 1..Len(calls) :
                 ~calls[k].threw =>
                    \A j \in 1..Len(calls[k].assets) :
                       \E i \in 1..Len(results) :
                          /\ results[i].id = calls[k].assets[j].id
                          /\ results[i].occurrences
                               = SumOccurrences(Reported, results[i].id))

\* the first file's detector threw, the second file was scanned and its
\* findings were returned
C6_Witness ==
    /\ wPc = "done" /\ ~cancelled
    /\ Len(calls) = 2 /\ calls[1].threw /\ ~calls[2].threw
    /\ results # <<>> /\ results = calls[2].assets

-----------------------------------------------------------------------------
(* Claims about the detector orchestrator *)

\* the merge key of a finding: name, primitive, assetType, file path and
\* first line number of its first detection context
MergeKey(a) ==
    <<a.name, a.primitive, a.assetType, a.detectionContexts[1].filePath,
      a.detectionContexts[1].lineNumbers[1]>>

\* C1: scanFile returns a list in which no two findings share a merge key:
\* of a key reported by both the lexical and the syntax-tree detector only
\* the first finding is kept; content with one SHA1 use on a line yields
\* exactly one SHA1 asset for that line.
C1_NoSharedMergeKey ==
    oPc = "done" =>
        \A i, j \in 1..Len(oResult) :
            i # j => MergeKey(oResult[i]) # MergeKey(oResult[j])

\* the findings of a list that fall on one (rule, file, line)
FindingsAt(res, name, path, line) ==
    {k \in 1..Len(res) :
        /\ res[k].name = name
        /\ res[k].detectionContexts[1].filePath = path
        /\ res[k].detectionContexts[1].lineNumbers[1] = line}

\* no (rule, file, line) has two findings in the list
OnePerRuleFileLine(res) ==
    \A k \in 1..Len(res) :
        Cardinality(FindingsAt(res, res[k].name,
                               res[k].detectionContexts[1].filePath,
                               res[k].detectionContexts[1].lineNumbers[1])) = 1

\* the claim, for the version with one set of detection keys alone
KeyedOnePerRuleFileLine ==
    (oPc \in {"await", "done"} /\ oVersion = "detection-keys")
        => OnePerRuleFileLine(oAstHits)

\* C15: the list detectMultiLang returns holds at most one finding per
\* (rule, file, line): a raw-text sweep match on a line for which the tree
\* walk already emitted a finding of the same rule adds no second finding.
C15_OnePerRuleFileLine ==
    oPc \in {"await", "done"} => OnePerRuleFileLine(oAstHits)

\* the syntax-tree detector has no grammar for the file, or it failed
NoGrammarOrFailure ==
    ~oGrammar.parser \/ oGrammar.openThrows \/ oGrammar.parseThrows

C17_UnreadableFileNoThrow ==
    (oFileState # "ok" /\ oPc # "detectAll") => (oPc = "done" /\ oResult = <<>>)

\* C18: detectMultiLang never rejects; without a grammar for the
\* extension, without rules for the language key, or when parsing the
\* text throws, it resolves to an empty list.
C18_MultiLangNeverRejects ==
    oPc \in {"await", "done"} =>
        /\ ~oAstRejected
        /\ (~oGrammar.parser \/ ~oGrammar.rules \/ oGrammar.parseThrows)
              => oAstHits = <<>>

\* detectMultiLang has settled on a text in which a rule matches, with the
\* parse throwing
C18_Witness ==
    /\ oPc \in {"await", "done"}
    /\ oGrammar.parseThrows
    /\ oRegexHits # <<>>
    /\ ~oAstRejected /\ oAstHits = <<>>

\* a match of the rule of that name occurs on line n of the content, by
\* one of the rule's patterns, its API signature or its name
RuleMatchesOnLine(name, content, n) ==
    /\ n \in 1..Len(SplitLines(content))
    /\ \E k \in 1..Len(ClassRules) :
          /\ ClassRules[k].name = name
          /\ \E p \in 1..Len(ClassRules[k].patterns) :
                TermFound(SplitLines(content)[n], ClassRules[k].patterns[p])

\* every line number of every detection context of a result is a line of
\* the content on which the finding's rule matches
LinesAreMatchLines(res, content) ==
    \A k \in 1..Len(res) :
        \A c \in 1..Len(res[k].detectionContexts) :
            \A m \in 1..Len(res[k].detectionContexts[c].lineNumbers) :
                RuleMatchesOnLine(res[k].name, content,
                                  res[k].detectionContexts[c].lineNumbers[m])

\* the claim, for the findings of the lexical detector alone
LexicalLinesAreMatchLines == LinesAreMatchLines(oRegexHits, oContent)

\* C24: every line number listed in a finding's detection context is a
\* 1-based line of the file on which a match of the finding's rule occurs,
\* also for the findings of the tree walk on nodes that span several
\* lines.
C24_LinesAreMatchLines ==
    /\ LinesAreMatchLines(oRegexHits, oContent)
    /\ LinesAreMatchLines(oAstHits, oContent)

-----------------------------------------------------------------------------
(* Claims about the tree walk *)

\* the tree-walk findings of a list on one (rule, line)
WalkFindingsAt(res, name, line) ==
    {k \in 1..Len(res) :
        /\ res[k].name = name
        /\ res[k].detectionContexts[1].lineNumbers[1] = line}

\* C25: the walk visits every node of the tree depth-first, a match at a
\* node never pruning its subtree; on each node the API signature of a
\* rule is tested before its name, so that a rule matching the node both
\* ways gives one finding for the node; and there is at most one tree-walk
\* finding per (rule, line).
C25_WalkVisitsAllOncePerRuleLine ==
    /\ kPc = "done" => kVisited = PreOrder(TreeNodes(kText, kShape))
    /\ kPc = "done" =>
          kAcc = Walk(ParseTree(kText, kShape), 1, CRYPTO_RULES.python, kText,
                      WalkPath, << <<>>, {} >>)
    /\ \A v \in 1..Len(kTests) :
          LET snippet == Substring(kText, kTests[v].node[1], kTests[v].node[2])
              rules   == CRYPTO_RULES.python
          IN /\ \A k \in 1..Len(rules) :
                    (Truthy(rules[k].api) /\ TermFound(snippet, rules[k].api))
                        => kTests[v].types[k] = "api"
             /\ kTests[v].added
                    <= Cardinality({k \in 1..Len(rules) :
                                        kTests[v].types[k] # "none"})
    /\ \A k \in 1..Len(kAcc[1]) :
          Cardinality(WalkFindingsAt(kAcc[1], kAcc[1][k].name,
                        kAcc[1][k].detectionContexts[1].lineNumbers[1])) = 1

\* the walk of crypto.createHash('sha1') ended: the root matched the rule
\* SHA1 by its API signature and by its name and gave one finding, and the
\* words below the root were visited after that match
C25_Witness ==
    /\ kPc = "done"
    /\ kText = s_createHashCall
    /\ kShape = "words"
    /\ kTests[1].types[1] = "api"
    /\ TermFound(kText, n_SHA1)
    /\ kTests[1].added = 1
    /\ Len(kVisited) > 1
    /\ Len(kAcc[1]) = 1

-----------------------------------------------------------------------------
(* Claims about the detectors under a rule file with bare rules *)

\* the rule is found in the text by its API signature or its name
RuleInText(rule, text) ==
    \/ (Truthy(rule.api) /\ TermFound(text, rule.api))
    \/ (Truthy(rule.name) /\ TermFound(text, rule.name))

\* the result holds a finding for every rule of the rule file that has a
\* type or a primitive and is found in the text
ClassifiedRulesKept(res) ==
    \A k \in 1..Len(uRules) :
        (Coalesce(uRules[k].type, uRules[k].primitive) # Undefined
            /\ RuleInText(uRules[k], uText))
        => \E a \in 1..Len(res) : res[a].name = uRules[k].name

\* the claim, under the rule file in which every rule is classified
ClassifiedFileLosesNothing ==
    (uPc = "done" /\ uRules = CRYPTO_RULES.python) =>
        /\ ~uScan.threw
        /\ ClassifiedRulesKept(uDoc)
        /\ ClassifiedRulesKept(uAst)

\* C26: RegexDetector.scan and detectMultiLang classify every matched rule
\* without throwing, also a rule with neither type nor primitive and no
\* quantumSafe: the match of such a rule never loses the findings of the
\* other rules in the same file.
C26_BareRuleLosesNothing ==
    uPc = "done" =>
        /\ ~uScan.threw
        /\ ClassifiedRulesKept(uDoc)
        /\ ClassifiedRulesKept(uAst)

-----------------------------------------------------------------------------
(* Claims about the grammar loader *)

\* C7: for any number of getParsers calls, also calls made while the first
\* initialisation is in flight, Parser.init and each grammar load are
\* started at most once, every caller is handed the same promise, and every
\* caller that resumed received the value of that one initialisation.
C7_InitOnce ==
    /\ initStarts <= 1
    /\ \A l \in WasmLangs : loadStarts[l] <= 1
    /\ \A c \in Callers :
          /\ gCaller[c] # "idle" => gAwait[c] = 1
          /\ gCaller[c] = "got" =>
                gGot[c] = [promise |-> 1, map |-> tasks[1].map]

\* a caller that entered while the initialisation was in flight and the
\* caller that started it have both resumed, after a grammar was loaded
C7_Witness ==
    \E c1, c2 \in Callers :
        /\ gJoin[c1] = "first" /\ gCaller[c1] = "got"
        /\ gJoin[c2] = "inflight" /\ gCaller[c2] = "got"
        /\ "python" \in gGot[c2].map
        /\ loadStarts["python"] = 1

\* the one initialisation has failed: its promise was fulfilled before any
\* grammar load was entered
InitFailed ==
    /\ initPromise # NoPromise
    /\ tasks[initPromise].pc = "settled"
    /\ tasks[initPromise].idx = 0

\* C29: getParsers never rejects, and the outcome of the first
\* initialisation is permanent: when it fails (Parser.init throws or the
\* grammar directory is missing) the promise resolves to an empty parser
\* map, and every later call is handed that same empty result without
\* another initialisation being attempted.
C29_FailurePermanent ==
    /\ [](\A id \in Callers : tasks[id].pc # "rejected")
    /\ [](InitFailed =>
            /\ tasks[initPromise].map = {}
            /\ \A c \in Callers : gCaller[c] = "got" => gGot[c].map = {})
    /\ [][InitFailed =>
            /\ InitFailed'
            /\ initPromise' = initPromise
            /\ initStarts' = initStarts
            /\ loadStarts' = loadStarts
            /\ tasks' = tasks]_vars

\* Parser.init threw although the grammars were there; a caller that called
\* after the failure has resumed with the empty map, as has the first
C29_Witness ==
    /\ InitFailed
    /\ baseDirExists /\ "python" \in wasmPresent
    /\ initStarts = 1
    /\ \E c1, c2 \in Callers :
          /\ gJoin[c1] = "first" /\ gCaller[c1] = "got"
          /\ gJoin[c2] = "settled" /\ gCaller[c2] = "got"
          /\ gGot[c2] = [promise |-> initPromise, map |-> {}]

====
